---- MODULE Spec2Model ----
(***************************************************************************)
(* Plugin framework of the AIrchitect CLI: PluginContext (per-plugin       *)
(* configuration and data directory), the plugin implementations with      *)
(* their lifecycle, the PluginManager dispatch and the host's main().      *)
(*                                                                         *)
(* Strings supplied by callers (plugin names, filenames, file contents,    *)
(* command arguments, config keys) are sequences of one-character strings, *)
(* so that pathlib's parsing of a name into path components and float()'s  *)
(* parsing of an argument are computed, not assumed.  A filesystem path is *)
(* a sequence of components; the filesystem maps the canonical paths that  *)
(* exist to a directory or to a file with its text.                        *)
(***************************************************************************)
EXTENDS Integers, Sequences, FiniteSets, TLC

VARIABLES
    fs,         \* the filesystem: canonical path -> [kind, data]
    contexts,   \* the PluginContext objects constructed so far, in order
    written,    \* history: per context, filename -> the text last written through it
    plugins,    \* the plugin objects constructed so far, in order
    registry,   \* PluginManager.plugins: the (name, plugin) entries in insertion order
    plugin_paths, \* PluginManager.plugin_paths: the paths added, in order
    lifecycle,  \* history: per plugin, the initialize() calls that succeeded and failed
    equiv,      \* the three PluginContext implementations run side by side, if started
    running,    \* per caller, the execute_command invocation it is inside, if any
    last,       \* the last operation performed and its outcome
    ops         \* the number of operations performed so far

vars == <<fs, contexts, written, plugins, registry, plugin_paths, lifecycle, equiv, running,
          last, ops>>

----------------------------------------------------------------------------
(* Bounds *)

MaxContexts == 2

MaxOps == 4

MaxPlugins == 2

\* the callers (threads) that dispatch commands
MaxCallers == 2

----------------------------------------------------------------------------
(* Strings and pathlib path arithmetic *)

Letters ==
    {"a", "b", "c", "d", "e", "f", "g", "h", "i", "j", "k", "l", "m",
     "n", "o", "p", "q", "r", "s", "t", "u", "v", "w", "x", "y", "z",
     "A", "B", "C", "D", "E", "F", "G", "H", "I", "J", "K", "L", "M",
     "N", "O", "P", "Q", "R", "S", "T", "U", "V", "W", "X", "Y", "Z"}

Digits == {"0", "1", "2", "3", "4", "5", "6", "7", "8", "9"}

RECURSIVE SplitAcc(_, _, _)
SplitAcc(s, cur, acc) ==
    IF s = <<>> THEN Append(acc, cur)
    ELSE IF Head(s) = "/" THEN SplitAcc(Tail(s), <<>>, Append(acc, cur))
    ELSE SplitAcc(Tail(s), Append(cur, Head(s)), acc)

\* str.split("/")
Split(s) == SplitAcc(s, <<>>, <<>>)

DotDot == <<".", ".">>

\* pathlib keeps the components that are neither empty nor "."
PathParts(s) == SelectSeq(Split(s), LAMBDA seg : seg # <<>> /\ seg # <<".">>)

IsAbsolute(s) == s # <<>> /\ Head(s) = "/"

\* base / s : an absolute right operand replaces the left one
JoinPath(base, s) == IF IsAbsolute(s) THEN PathParts(s) ELSE base \o PathParts(s)

Parent(p) == IF p = <<>> THEN <<>> ELSE SubSeq(p, 1, Len(p) - 1)

IsPrefix(p, q) == Len(p) <= Len(q) /\ SubSeq(q, 1, Len(p)) = p

\* Path.home()
Home == << <<"h">> >>

DotAichitect == <<".", "a", "i", "c", "h", "i", "t", "e", "c", "t">>

PluginsDir == <<"p", "l", "u", "g", "i", "n", "s">>

\* Path.home() / ".aichitect" / "plugins"
PluginsRoot == Home \o <<DotAichitect, PluginsDir>>

----------------------------------------------------------------------------
(* The filesystem as the operating system resolves it *)

DirNode == [kind |-> "dir", data |-> <<>>]

FileNode(text) == [kind |-> "file", data |-> text]

RECURSIVE WalkFrom(_, _, _)
WalkFrom(f, cur, rest) ==
    IF rest = <<>> THEN [err |-> "OK", path |-> cur]
    ELSE IF cur \notin DOMAIN f THEN [err |-> "ENOENT", path |-> cur]
    ELSE IF f[cur].kind # "dir" THEN [err |-> "ENOTDIR", path |-> cur]
    ELSE WalkFrom(f, IF Head(rest) = DotDot THEN Parent(cur) ELSE Append(cur, Head(rest)),
                  Tail(rest))

\* resolution of an absolute path, ".." followed through existing directories
Walk(f, p) == WalkFrom(f, <<>>, p)

PathExists(f, p) == LET w == Walk(f, p) IN w.err = "OK" /\ w.path \in DOMAIN f

PathIsFile(f, p) == PathExists(f, p) /\ f[Walk(f, p).path].kind = "file"

PathIsDir(f, p) == PathExists(f, p) /\ f[Walk(f, p).path].kind = "dir"

ErrName(e) ==
    CASE e = "ENOENT"  -> "FileNotFoundError"
      [] e = "ENOTDIR" -> "NotADirectoryError"
      [] e = "EISDIR"  -> "IsADirectoryError"
      [] e = "EEXIST"  -> "FileExistsError"
      [] OTHER         -> "OK"

\* os.mkdir
OsMkdir(f, p) ==
    LET w == Walk(f, p) IN
    IF w.err # "OK" THEN [err |-> w.err, fs |-> f]
    ELSE IF w.path \in DOMAIN f THEN [err |-> "EEXIST", fs |-> f]
    ELSE IF Parent(w.path) \notin DOMAIN f THEN [err |-> "ENOENT", fs |-> f]
    ELSE IF f[Parent(w.path)].kind # "dir" THEN [err |-> "ENOTDIR", fs |-> f]
    ELSE [err |-> "OK", fs |-> (w.path :> DirNode) @@ f]

\* Path.mkdir(parents=True, exist_ok=True)
RECURSIVE MkdirParents(_, _)
MkdirParents(f, p) ==
    LET r == OsMkdir(f, p) IN
    IF r.err = "OK" THEN r
    ELSE IF r.err = "ENOENT" THEN
        IF p = <<>> THEN r
        ELSE LET up == MkdirParents(f, Parent(p)) IN
             IF up.err # "OK" THEN up
             ELSE LET again == OsMkdir(up.fs, p) IN
                  IF again.err = "OK" \/ PathIsDir(up.fs, p)
                  THEN [err |-> "OK", fs |-> again.fs]
                  ELSE again
    ELSE IF PathIsDir(f, p) THEN [err |-> "OK", fs |-> f]
    ELSE r

\* universal-newline translation of text read back
RECURSIVE TranslateNewlines(_)
TranslateNewlines(t) ==
    IF t = <<>> THEN <<>>
    ELSE IF Head(t) = "\r" THEN
        IF Len(t) >= 2 /\ t[2] = "\n"
        THEN <<"\n">> \o TranslateNewlines(Tail(Tail(t)))
        ELSE <<"\n">> \o TranslateNewlines(Tail(t))
    ELSE <<Head(t)>> \o TranslateNewlines(Tail(t))

\* Outcomes of a call: a returned string, a returned None, or a raised error
Returned(v) == [kind |-> "value", val |-> v, exc |-> "OK"]

ReturnedNone == [kind |-> "none", val |-> <<>>, exc |-> "OK"]

Raised(e) == [kind |-> "raise", val |-> <<>>, exc |-> e]

\* Path.read_text()
ReadText(f, p) ==
    LET w == Walk(f, p) IN
    IF w.err # "OK" THEN Raised(ErrName(w.err))
    ELSE IF w.path \notin DOMAIN f THEN Raised("FileNotFoundError")
    ELSE IF f[w.path].kind = "dir" THEN Raised("IsADirectoryError")
    ELSE Returned(TranslateNewlines(f[w.path].data))

\* Path.write_text(content)
WriteText(f, p, content) ==
    LET w == Walk(f, p) IN
    IF w.err # "OK" THEN [err |-> w.err, fs |-> f]
    ELSE IF w.path \in DOMAIN f THEN
        IF f[w.path].kind = "dir" THEN [err |-> "EISDIR", fs |-> f]
        ELSE [err |-> "OK", fs |-> [f EXCEPT ![w.path] = FileNode(content)]]
    ELSE IF Parent(w.path) \notin DOMAIN f THEN [err |-> "ENOENT", fs |-> f]
    ELSE IF f[Parent(w.path)].kind # "dir" THEN [err |-> "ENOTDIR", fs |-> f]
    ELSE [err |-> "OK", fs |-> (w.path :> FileNode(content)) @@ f]

----------------------------------------------------------------------------
(* PluginContext *)

KeyInitialized == <<"i", "n", "i", "t", "i", "a", "l", "i", "z", "e", "d">>

\* PluginContext.__init__
PluginContextInit(name) ==
    [plugin_name |-> name,
     config      |-> <<>>,
     data_dir    |-> JoinPath(PluginsRoot, name)]

\* PluginContext.ensure_data_dir: the filesystem afterwards and the outcome
EnsureDataDirResult(f, ctx) ==
    LET r == MkdirParents(f, ctx.data_dir) IN
    [fs |-> r.fs,
     outcome |-> IF r.err = "OK" THEN ReturnedNone ELSE Raised(ErrName(r.err))]

\* PluginContext.write_data_file
WriteDataFileResult(f, ctx, filename, content) ==
    LET e == EnsureDataDirResult(f, ctx) IN
    IF e.outcome.kind = "raise" THEN e
    ELSE LET w == WriteText(e.fs, JoinPath(ctx.data_dir, filename), content) IN
         [fs |-> w.fs,
          outcome |-> IF w.err = "OK" THEN ReturnedNone ELSE Raised(ErrName(w.err))]

\* PluginContext.read_data_file
ReadDataFileResult(f, ctx, filename) ==
    LET filepath == JoinPath(ctx.data_dir, filename) IN
    IF PathExists(f, filepath) THEN ReadText(f, filepath) ELSE ReturnedNone

\* the names list_data_files collects: the regular files directly in data_dir
DataFileNames(f, ctx) ==
    LET d == Walk(f, ctx.data_dir).path IN
    {p[Len(p)] : p \in {q \in DOMAIN f : Len(q) = Len(d) + 1 /\ Parent(q) = d
                                          /\ f[q].kind = "file"}}

\* the orders in which iterdir may yield a set of names
Orderings(S) ==
    {o \in [1..Cardinality(S) -> S] : \A i, j \in 1..Cardinality(S) : o[i] = o[j] => i = j}

----------------------------------------------------------------------------
(* Inputs of the file operations *)

PluginNames ==
    { <<"a">>, <<"b">>, <<>>, <<".", ".", "/", "b">> }

HostFile == Home \o << <<"s">> >>

FileNames ==
    { <<"f">>, <<".", ".", "/", "b">>, <<".", ".", "/", "b", "/", "f">>,
      <<"/", "h", "/", "s">> }

Contents == { <<"x">>, <<"y">>, <<"\r">> }

NoListing == <<>>

Op(op, c, arg, content, outcome, listing) ==
    [op |-> op, ctx |-> c, arg |-> arg, content |-> content,
     outcome |-> outcome, listing |-> listing]

----------------------------------------------------------------------------
(* File operations on contexts *)

Callers == 1..MaxCallers

\* the side-by-side run of the implementations before it is started
NotStarted == [locale |-> "", impl |-> <<>>]

\* a caller that is inside no invocation
Idle == [pc |-> "idle", plugin |-> 0, name |-> "", command |-> "", args |-> <<>>]

InitFiles ==
    /\ fs = (<<>> :> DirNode) @@ (Home :> DirNode) @@ (HostFile :> FileNode(<<"s">>))
    /\ contexts = <<>>
    /\ written = <<>>
    /\ plugins = <<>>
    /\ registry = <<>>
    /\ plugin_paths = <<>>
    /\ equiv = NotStarted
    /\ lifecycle = <<>>
    /\ running = [t \in Callers |-> Idle]
    /\ last = Op("start", 0, <<>>, <<>>, ReturnedNone, NoListing)
    /\ ops = 0

\* one more operation on the contexts, the plugins or the registry, run from
\* call to return with no other caller's step between, while the bound
\* allows it
Tick ==
    /\ ops < MaxOps
    /\ ops' = ops + 1
    /\ running' = running
    /\ plugin_paths' = plugin_paths
    /\ equiv' = equiv

NewContext(name) ==
    /\ Tick
    /\ Len(contexts) < MaxContexts
    /\ contexts' = Append(contexts, PluginContextInit(name))
    /\ written' = Append(written, <<>>)
    /\ last' = Op("PluginContext", Len(contexts) + 1, name, <<>>, ReturnedNone, NoListing)
    /\ UNCHANGED <<fs, plugins, registry, lifecycle>>

EnsureDataDir(c) ==
    LET r == EnsureDataDirResult(fs, contexts[c]) IN
    /\ Tick
    /\ fs' = r.fs
    /\ last' = Op("ensure_data_dir", c, <<>>, <<>>, r.outcome, NoListing)
    /\ UNCHANGED <<contexts, written, plugins, registry, lifecycle>>

WriteDataFile(c, filename, content) ==
    LET r == WriteDataFileResult(fs, contexts[c], filename, content) IN
    /\ Tick
    /\ fs' = r.fs
    /\ written' = IF r.outcome.kind = "raise" THEN written
                  ELSE [written EXCEPT ![c] = (filename :> content) @@ written[c]]
    /\ last' = Op("write_data_file", c, filename, content, r.outcome, NoListing)
    /\ UNCHANGED <<contexts, plugins, registry, lifecycle>>

ReadDataFile(c, filename) ==
    /\ Tick
    /\ last' = Op("read_data_file", c, filename, <<>>,
                  ReadDataFileResult(fs, contexts[c], filename), NoListing)
    /\ UNCHANGED <<fs, contexts, written, plugins, registry, lifecycle>>

ListDataFiles(c) ==
    /\ Tick
    /\ IF PathExists(fs, contexts[c].data_dir)
       THEN IF PathIsDir(fs, contexts[c].data_dir)
            THEN \E o \in Orderings(DataFileNames(fs, contexts[c])) :
                    last' = Op("list_data_files", c, <<>>, <<>>, ReturnedNone, o)
            ELSE last' = Op("list_data_files", c, <<>>, <<>>,
                            Raised("NotADirectoryError"), NoListing)
       ELSE last' = Op("list_data_files", c, <<>>, <<>>, ReturnedNone, <<>>)
    /\ UNCHANGED <<fs, contexts, written, plugins, registry, lifecycle>>

NextFiles ==
    \/ \E name \in PluginNames : NewContext(name)
    \/ \E c \in 1..Len(contexts) : EnsureDataDir(c)
    \/ \E c \in 1..Len(contexts), filename \in FileNames, content \in Contents :
          WriteDataFile(c, filename, content)
    \/ \E c \in 1..Len(contexts), filename \in FileNames : ReadDataFile(c, filename)
    \/ \E c \in 1..Len(contexts) : ListDataFiles(c)

SpecFiles == InitFiles /\ [][NextFiles]_vars

----------------------------------------------------------------------------
(* Values and numbers *)

\* Python values handed around as Any: the type is kept with the value
StrValue(s) == [t |-> "str", s |-> s, d |-> <<>>]

NoneValue == [t |-> "NoneType", s |-> <<>>, d |-> <<>>]

BoolValue(b) == [t |-> "bool", s |-> IF b THEN <<"T", "r", "u", "e">> ELSE <<"F", "a", "l", "s", "e">>, d |-> <<>>]

DictValue(rec) == [t |-> "dict", s |-> <<>>, d |-> <<rec>>]

\* outcomes of execute_command and execute_plugin_command
CmdReturned(v) == [kind |-> "value", val |-> v, exc |-> "OK", fmt |-> "", arg |-> ""]

CmdRaised(e, fmt, arg) == [kind |-> "raise", val |-> NoneValue, exc |-> e, fmt |-> fmt, arg |-> arg]

\* " ".join(args)
RECURSIVE JoinSpace(_)
JoinSpace(args) ==
    IF args = <<>> THEN <<>>
    ELSE IF Len(args) = 1 THEN args[1]
    ELSE args[1] \o <<" ">> \o JoinSpace(Tail(args))

DigitValue(ch) ==
    CASE ch = "0" -> 0 [] ch = "1" -> 1 [] ch = "2" -> 2 [] ch = "3" -> 3
      [] ch = "4" -> 4 [] ch = "5" -> 5 [] ch = "6" -> 6 [] ch = "7" -> 7
      [] ch = "8" -> 8 [] ch = "9" -> 9

RECURSIVE DigitsValue(_, _)
DigitsValue(ds, acc) ==
    IF ds = <<>> THEN acc ELSE DigitsValue(Tail(ds), 10 * acc + DigitValue(Head(ds)))

AllDigits(ds) == ds # <<>> /\ \A i \in 1..Len(ds) : ds[i] \in Digits

\* float(s) on a signed run of digits; any other text here is not a number
ParseFloat(s) ==
    IF s # <<>> /\ Head(s) \in {"-", "+"}
    THEN IF AllDigits(Tail(s))
         THEN [ok |-> TRUE,
               v |-> IF Head(s) = "-" THEN 0 - DigitsValue(Tail(s), 0)
                     ELSE DigitsValue(Tail(s), 0)]
         ELSE [ok |-> FALSE, v |-> 0]
    ELSE IF AllDigits(s) THEN [ok |-> TRUE, v |-> DigitsValue(s, 0)]
    ELSE [ok |-> FALSE, v |-> 0]

\* numbers are kept exact, as numerator over denominator
Number(n) == [n |-> n, d |-> 1]

Undefined == [n |-> 0, d |-> 0]

\* a quotient that drops the fractional part
QuotientTruncated(a, b) == [n |-> a \div b, d |-> 1]

\* a / b for b # 0
Quotient(a, b) == IF b < 0 THEN [n |-> 0 - a, d |-> 0 - b] ELSE [n |-> a, d |-> b]

RECURSIVE IntPow(_, _)
IntPow(a, b) == IF b = 0 THEN 1 ELSE a * IntPow(a, b - 1)

\* a ** b for b >= 0, and for b < 0 with a # 0
Power(a, b) == IF b >= 0 THEN Number(IntPow(a, b)) ELSE Quotient(1, IntPow(a, 0 - b))

\* a % b, the result taking the sign of b
Modulo(a, b) == IF b > 0 THEN Number(a % b) ELSE Number(0 - ((0 - a) % (0 - b)))

----------------------------------------------------------------------------
(* The plugin implementations *)

ExampleName == <<"e", "x", "a", "m", "p", "l", "e">>

Greeting ==
    <<"H", "e", "l", "l", "o", " ", "f", "r", "o", "m", " ", "t", "h", "e",
      " ", "e", "x", "a", "m", "p", "l", "e", " ", "p", "l", "u", "g", "i",
      "n", "!">>

FeaturesText ==
    <<"A", "I", "r", "c", "h", "i", "t", "e", "c", "t", " ", "C", "L", "I",
      " ", "F", "e", "a", "t", "u", "r", "e", "s", ":", "\n", " ", " ", "-",
      " ", "M", "u", "l", "t", "i", "-", "l", "a", "n", "g", "u", "a", "g",
      "e", " ", "a", "r", "c", "h", "i", "t", "e", "c", "t", "u", "r", "e",
      "\n", " ", " ", "-", " ", "P", "l", "u", "g", "i", "n", " ", "s", "y",
      "s", "t", "e", "m", " ", "w", "i", "t", "h", " ", "P", "y", "t", "h",
      "o", "n", " ", "e", "x", "t", "e", "n", "s", "i", "o", "n", "s", "\n",
      " ", " ", "-", " ", "A", "I", " ", "i", "n", "t", "e", "g", "r", "a",
      "t", "i", "o", "n", " ", "w", "i", "t", "h", " ", "m", "u", "l", "t",
      "i", "p", "l", "e", " ", "p", "r", "o", "v", "i", "d", "e", "r", "s",
      "\n", " ", " ", "-", " ", "R", "i", "c", "h", " ", "t", "e", "r", "m",
      "i", "n", "a", "l", " ", "u", "s", "e", "r", " ", "i", "n", "t", "e",
      "r", "f", "a", "c", "e", "\n", " ", " ", "-", " ", "I", "n", "t", "e",
      "l", "l", "i", "g", "e", "n", "t", " ", "a", "g", "e", "n", "t", " ",
      "f", "r", "a", "m", "e", "w", "o", "r", "k">>

\* str(e) of the AttributeError raised by self.context.get_ai_provider()
NoAIProviderText ==
    <<"E", "r", "r", "o", "r", " ", "q", "u", "e", "r", "y", "i", "n", "g",
      " ", "A", "I", " ", "p", "r", "o", "v", "i", "d", "e", "r", ":", " ",
      "'", "P", "l", "u", "g", "i", "n", "C", "o", "n", "t", "e", "x", "t",
      "'", " ", "o", "b", "j", "e", "c", "t", " ", "h", "a", "s", " ", "n",
      "o", " ", "a", "t", "t", "r", "i", "b", "u", "t", "e", " ", "'", "g",
      "e", "t", "_", "a", "i", "_", "p", "r", "o", "v", "i", "d", "e", "r",
      "'">>

\* a plugin object; context is the index of its PluginContext, 0 for None
PluginObject(kind, c, failInit, failExecute) ==
    [kind |-> kind, context |-> c, initialized |-> FALSE, execution_count |-> 0,
     config |-> <<>>, fail_on_init |-> failInit, fail_on_execute |-> failExecute]

\* get_commands() of each implementation
GetCommands(kind) ==
    CASE kind = "ExamplePlugin"     -> <<"hello", "features", "calculate", "ai-query">>
      [] kind = "MockSimplePlugin"  -> <<"test", "echo">>
      [] kind = "MockComplexPlugin" -> <<"calculate", "config", "store", "retrieve", "fail">>
      [] kind = "MockFailingPlugin" -> <<"test">>

\* a lookup that takes a stored None for a missing key
GetConfigNoneAsMissing(ctx, key, default) ==
    IF key \in DOMAIN ctx.config /\ ctx.config[key].t # "NoneType"
    THEN ctx.config[key] ELSE default

\* PluginContext.get_config: the Value stored, or the default
GetConfig(ctx, key, default) == IF key \in DOMAIN ctx.config THEN ctx.config[key] ELSE default

\* a store that keeps the value a key already has
SetConfigKeepFirst(ctx, key, value) == [ctx EXCEPT !.config = ctx.config @@ (key :> value)]

\* a set_config that stores a string given under "plugin_name" as the attribute
SetConfigAsAttribute(ctx, key, value) ==
    IF key = <<"p", "l", "u", "g", "i", "n", "_", "n", "a", "m", "e">> /\ value.t = "str"
    THEN [ctx EXCEPT !.config = (key :> value) @@ ctx.config,
                     !.plugin_name = value.s,
                     !.data_dir = JoinPath(PluginsRoot, value.s)]
    ELSE [ctx EXCEPT !.config = (key :> value) @@ ctx.config]

\* PluginContext.set_config
SetConfig(ctx, key, value) == [ctx EXCEPT !.config = (key :> value) @@ ctx.config]

\* PluginContext.get_data_dir
GetDataDir(ctx) == ctx.data_dir

\* a calculate that divides whatever the second operand is
ExampleCalculateDividing(args) ==
    IF Len(args) # 2
    THEN CmdRaised("ValueError", "Calculate command requires exactly two numbers", "")
    ELSE LET a == ParseFloat(args[1])
             b == ParseFloat(args[2]) IN
         IF ~a.ok \/ ~b.ok
         THEN CmdRaised("ValueError", "Both arguments must be valid numbers", "")
         ELSE IF b.v = 0
         THEN CmdRaised("ZeroDivisionError", "float division by zero", "")
         ELSE IF a.v = 0 /\ b.v < 0
         THEN CmdRaised("ZeroDivisionError", "0.0 cannot be raised to a negative power", "")
         ELSE CmdReturned(DictValue(
                [sum        |-> Number(a.v + b.v),
                 difference |-> Number(a.v - b.v),
                 product    |-> Number(a.v * b.v),
                 quotient   |-> Quotient(a.v, b.v),
                 power      |-> Power(a.v, b.v),
                 modulo     |-> Modulo(a.v, b.v)]))

\* ExamplePlugin._calculate_command: the "results" entry of what it returns
ExampleCalculate(args) ==
    IF Len(args) # 2
    THEN CmdRaised("ValueError", "Calculate command requires exactly two numbers", "")
    ELSE LET a == ParseFloat(args[1])
             b == ParseFloat(args[2]) IN
         IF ~a.ok \/ ~b.ok
         THEN CmdRaised("ValueError", "Both arguments must be valid numbers", "")
         ELSE IF a.v = 0 /\ b.v < 0
         THEN CmdRaised("ZeroDivisionError", "0.0 cannot be raised to a negative power", "")
         ELSE CmdReturned(DictValue(
                [sum        |-> Number(a.v + b.v),
                 difference |-> Number(a.v - b.v),
                 product    |-> Number(a.v * b.v),
                 quotient   |-> IF b.v # 0 THEN Quotient(a.v, b.v) ELSE Undefined,
                 power      |-> Power(a.v, b.v),
                 modulo     |-> IF b.v # 0 THEN Modulo(a.v, b.v) ELSE Undefined]))

\* ExamplePlugin.execute_command; it changes neither the plugin nor its context
ExampleExecute(command, args) ==
    CASE command = "hello" ->
            CmdReturned(StrValue(IF args # <<>>
                                 THEN <<"H", "e", "l", "l", "o", ",", " ">> \o JoinSpace(args) \o <<"!", " ">> \o Greeting
                                 ELSE Greeting))
      [] command = "features" -> CmdReturned(StrValue(FeaturesText))
      [] command = "calculate" -> ExampleCalculate(args)
      [] command = "ai-query" ->
            IF args = <<>>
            THEN CmdRaised("ValueError", "AI query command requires a query string", "")
            ELSE CmdReturned(StrValue(NoAIProviderText))
      [] OTHER -> CmdRaised("ValueError", "Unknown command: {}", command)

\* an execute_command that handles "test" and not the declared "echo"
MockSimpleExecuteTestOnly(command, args) ==
    CASE command = "test" -> CmdReturned(StrValue(<<"t", "e", "s", "t", "_", "r", "e", "s", "u", "l", "t">>))
      [] OTHER -> CmdRaised("ValueError", "Unknown command: {}", command)

\* MockSimplePlugin.execute_command
MockSimpleExecute(command, args) ==
    CASE command = "test" -> CmdReturned(StrValue(<<"t", "e", "s", "t", "_", "r", "e", "s", "u", "l", "t">>))
      [] command = "echo" -> CmdReturned(StrValue(JoinSpace(args)))
      [] OTHER -> CmdRaised("ValueError", "Unknown command: {}", command)

\* a store that records its first argument before it checks the arguments
MockComplexStoreEarly(plugin, ctxs, args) ==
    IF plugin.context # 0 /\ Len(args) = 2
    THEN [plugin |-> plugin,
          contexts |-> [ctxs EXCEPT ![plugin.context] =
                           SetConfig(@, args[1], StrValue(args[2]))],
          outcome |-> CmdReturned(StrValue(<<"S", "t", "o", "r", "e", "d", " ">> \o args[1]))]
    ELSE [plugin |-> plugin,
          contexts |-> IF plugin.context # 0 /\ Len(args) >= 1
                       THEN [ctxs EXCEPT ![plugin.context] = SetConfig(@, args[1], NoneValue)]
                       ELSE ctxs,
          outcome |-> CmdRaised("ValueError", "Store requires context and 2 arguments", "")]

\* the "store" command of MockComplexPlugin.execute_command
MockComplexStore(plugin, ctxs, args) ==
    IF plugin.context # 0 /\ Len(args) = 2
    THEN [plugin |-> plugin,
          contexts |-> [ctxs EXCEPT ![plugin.context] =
                           SetConfig(@, args[1], StrValue(args[2]))],
          outcome |-> CmdReturned(StrValue(<<"S", "t", "o", "r", "e", "d", " ">> \o args[1]))]
    ELSE [plugin |-> plugin, contexts |-> ctxs,
          outcome |-> CmdRaised("ValueError", "Store requires context and 2 arguments", "")]

\* MockComplexPlugin.execute_command after the counter is incremented:
\* the plugin and its context afterwards, and the outcome
MockComplexExecute(plugin, ctxs, command, args) ==
    LET same(o) == [plugin |-> plugin, contexts |-> ctxs, outcome |-> o] IN
    CASE command = "calculate" ->
            IF Len(args) # 2
            THEN same(CmdRaised("ValueError", "Calculate requires exactly 2 arguments", ""))
            ELSE LET a == ParseFloat(args[1])
                     b == ParseFloat(args[2]) IN
                 IF ~a.ok \/ ~b.ok
                 THEN same(CmdRaised("ValueError", "Invalid number format: {}", ""))
                 ELSE same(CmdReturned(DictValue([sum     |-> Number(a.v + b.v),
                                                  product |-> Number(a.v * b.v)])))
      [] command = "config" ->
            IF Len(args) = 1
            THEN same(CmdReturned(IF args[1] \in DOMAIN plugin.config
                                  THEN plugin.config[args[1]] ELSE NoneValue))
            ELSE IF Len(args) = 2
            THEN [plugin |-> [plugin EXCEPT !.config = (args[1] :> StrValue(args[2])) @@ @],
                  contexts |-> ctxs,
                  outcome |-> CmdReturned(StrValue(<<"S", "e", "t", " ">> \o args[1] \o <<" ", "=", " ">> \o args[2]))]
            ELSE same(CmdRaised("ValueError", "Config requires 1 or 2 arguments", ""))
      [] command = "store" -> MockComplexStore(plugin, ctxs, args)
      [] command = "retrieve" ->
            IF plugin.context # 0 /\ Len(args) = 1
            THEN same(CmdReturned(GetConfig(ctxs[plugin.context], args[1], NoneValue)))
            ELSE same(CmdRaised("ValueError", "Retrieve requires context and 1 argument", ""))
      [] command = "fail" ->
            same(CmdRaised("RuntimeError", "Intentional failure for testing", ""))
      [] OTHER -> same(CmdRaised("ValueError", "Unknown command: {}", command))

\* MockFailingPlugin.execute_command
MockFailingExecute(plugin, command, args) ==
    IF plugin.fail_on_execute
    THEN CmdRaised("RuntimeError", "Plugin configured to fail on execute", "")
    ELSE CmdReturned(StrValue(<<"s", "u", "c", "c", "e", "s", "s">>))

\* an execute_command whose MockComplexPlugin counts the calls that return only
ExecuteCommandResultCountingReturns(plugs, ctxs, p, command, args) ==
    LET plugin == plugs[p] IN
    CASE plugin.kind = "ExamplePlugin" ->
            [plugins |-> plugs, contexts |-> ctxs, outcome |-> ExampleExecute(command, args)]
      [] plugin.kind = "MockSimplePlugin" ->
            [plugins |-> plugs, contexts |-> ctxs, outcome |-> MockSimpleExecute(command, args)]
      [] plugin.kind = "MockComplexPlugin" ->
            LET Done(r) ==
                    [plugins |-> [plugs EXCEPT ![p] =
                                     IF r.outcome.kind = "value"
                                     THEN [r.plugin EXCEPT !.execution_count = @ + 1]
                                     ELSE r.plugin],
                     contexts |-> r.contexts,
                     outcome |-> r.outcome]
            IN Done(MockComplexExecute(plugin, ctxs, command, args))
      [] plugin.kind = "MockFailingPlugin" ->
            [plugins |-> plugs, contexts |-> ctxs,
             outcome |-> MockFailingExecute(plugin, command, args)]

\* plugin.execute_command(command, args) on plugin number p:
\* the plugin objects and contexts afterwards, and the outcome
ExecuteCommandResult(plugs, ctxs, p, command, args) ==
    LET plugin == plugs[p] IN
    CASE plugin.kind = "ExamplePlugin" ->
            [plugins |-> plugs, contexts |-> ctxs, outcome |-> ExampleExecute(command, args)]
      [] plugin.kind = "MockSimplePlugin" ->
            [plugins |-> plugs, contexts |-> ctxs, outcome |-> MockSimpleExecute(command, args)]
      [] plugin.kind = "MockComplexPlugin" ->
            LET counted == [plugin EXCEPT !.execution_count = @ + 1]
                r == MockComplexExecute(counted, ctxs, command, args) IN
            [plugins |-> [plugs EXCEPT ![p] = r.plugin],
             contexts |-> r.contexts,
             outcome |-> r.outcome]
      [] plugin.kind = "MockFailingPlugin" ->
            [plugins |-> plugs, contexts |-> ctxs,
             outcome |-> MockFailingExecute(plugin, command, args)]

----------------------------------------------------------------------------
(* PluginManager *)

\* the position of name among the registry's keys, 0 when absent
RegistryIndex(reg, name) ==
    IF \E i \in 1..Len(reg) : reg[i].name = name
    THEN CHOOSE i \in 1..Len(reg) : reg[i].name = name
    ELSE 0

\* PluginManager.get_plugin: the plugin number, 0 for None
GetPlugin(reg, name) ==
    IF RegistryIndex(reg, name) = 0 THEN 0 ELSE reg[RegistryIndex(reg, name)].plugin

\* PluginManager.list_plugins
ListPlugins(reg) == [i \in 1..Len(reg) |-> reg[i].name]

\* a store that moves an overwritten key to the end of the dict
RegistryStoreMoveToEnd(reg, name, p) ==
    Append(SelectSeq(reg, LAMBDA e : e.name # name), [name |-> name, plugin |-> p])

\* plugin_manager.plugins[name] = plugin
RegistryStore(reg, name, p) ==
    IF RegistryIndex(reg, name) = 0
    THEN Append(reg, [name |-> name, plugin |-> p])
    ELSE [reg EXCEPT ![RegistryIndex(reg, name)].plugin = p]

\* a dispatch that hands back None for a name that is not registered
ExecutePluginCommandNoMiss(reg, plugs, ctxs, name, command, args) ==
    LET p == GetPlugin(reg, name) IN
    IF p = 0
    THEN [plugins |-> plugs, contexts |-> ctxs, called |-> {},
          outcome |-> CmdReturned(NoneValue)]
    ELSE LET r == ExecuteCommandResult(plugs, ctxs, p, command, args) IN
         [plugins |-> r.plugins, contexts |-> r.contexts, called |-> {p},
          outcome |-> r.outcome]

\* PluginManager.execute_plugin_command: the state afterwards, the outcome
\* and the plugins whose execute_command was called
ExecutePluginCommandResult(reg, plugs, ctxs, name, command, args) ==
    LET p == GetPlugin(reg, name) IN
    IF p = 0
    THEN [plugins |-> plugs, contexts |-> ctxs, called |-> {},
          outcome |-> CmdRaised("ValueError", "Plugin '{}' not found", name)]
    ELSE LET r == ExecuteCommandResult(plugs, ctxs, p, command, args) IN
         [plugins |-> r.plugins, contexts |-> r.contexts, called |-> {p},
          outcome |-> r.outcome]

----------------------------------------------------------------------------
(* Inputs of the plugin operations *)

PluginKinds == {"ExamplePlugin", "MockSimplePlugin", "MockComplexPlugin", "MockFailingPlugin"}

RegistryNames == {"example", "mock"}

ArgK == <<"k">>

ArgV == <<"v">>

\* the (command, args) pairs callers pass
Calls ==
    { <<"hello", <<ArgK, ArgV>>>>, <<"features", <<>>>>,
      <<"calculate", << <<"1", "0">>, <<"3">> >>>>, <<"calculate", << <<"0">>, <<"-", "1">> >>>>,
      <<"calculate", <<ArgK>>>>, <<"calculate", <<ArgK, ArgV>>>>,
      <<"ai-query", <<>>>>,
      <<"test", <<>>>>, <<"echo", <<ArgK>>>>,
      <<"config", <<>>>>, <<"config", <<ArgK>>>>, <<"config", <<ArgK, ArgV>>>>,
      <<"store", <<ArgK>>>>, <<"store", <<ArgK, ArgV>>>>, <<"retrieve", <<ArgK>>>>,
      <<"fail", <<>>>>, <<"bogus", <<>>>>, <<"", <<>>>> }

CallOp(op, p, name, command, args, outcome, called) ==
    [op |-> op, plugin |-> p, name |-> name, command |-> command, args |-> args,
     outcome |-> outcome, called |-> called]

----------------------------------------------------------------------------
(* Plugin construction, registration and dispatch *)

\* a plugin on which neither initialize() nor cleanup() has been called:
\* ready is "an initialize() succeeded and no cleanup() was called since",
\* failed is "an initialize() failed", the counters count the calls
NoLifecycle == [ready |-> FALSE, failed |-> FALSE, initializes |-> 0, cleanups |-> 0]

\* ExamplePlugin(): the plugin constructs its own PluginContext("example")
NewExamplePlugin ==
    /\ Tick
    /\ Len(plugins) < MaxPlugins
    /\ Len(contexts) < MaxContexts
    /\ contexts' = Append(contexts, PluginContextInit(ExampleName))
    /\ written' = Append(written, <<>>)
    /\ plugins' = Append(plugins, PluginObject("ExamplePlugin", Len(contexts) + 1, FALSE, FALSE))
    /\ lifecycle' = Append(lifecycle, NoLifecycle)
    /\ last' = CallOp("ExamplePlugin", Len(plugins) + 1, "", "", <<>>, CmdReturned(NoneValue), {})
    /\ UNCHANGED <<fs, registry>>

\* MockSimplePlugin(context), MockComplexPlugin(context),
\* MockFailingPlugin(context, fail_on_init, fail_on_execute)
NewMockPlugin(kind, c, failInit, failExecute) ==
    /\ Tick
    /\ Len(plugins) < MaxPlugins
    /\ kind # "ExamplePlugin"
    /\ (kind # "MockFailingPlugin") => (~failInit /\ ~failExecute)
    /\ plugins' = Append(plugins, PluginObject(kind, c, failInit, failExecute))
    /\ lifecycle' = Append(lifecycle, NoLifecycle)
    /\ last' = CallOp(kind, Len(plugins) + 1, "", "", <<>>, CmdReturned(NoneValue), {})
    /\ UNCHANGED <<fs, contexts, written, registry>>

\* plugin_manager.plugins[name] = plugin
Register(name, p) ==
    /\ Tick
    /\ registry' = RegistryStore(registry, name, p)
    /\ last' = CallOp("register", p, name, "", <<>>, CmdReturned(NoneValue), {})
    /\ UNCHANGED <<fs, contexts, written, plugins, lifecycle>>

\* plugin.execute_command(command, args), called directly
ExecuteCommand(p, command, args) ==
    LET r == ExecuteCommandResult(plugins, contexts, p, command, args) IN
    /\ Tick
    /\ plugins' = r.plugins
    /\ contexts' = r.contexts
    /\ last' = CallOp("execute_command", p, "", command, args, r.outcome, {p})
    /\ UNCHANGED <<fs, written, registry, lifecycle>>

\* plugin_manager.execute_plugin_command(name, command, args)
ExecutePluginCommand(name, command, args) ==
    LET r == ExecutePluginCommandResult(registry, plugins, contexts, name, command, args) IN
    /\ Tick
    /\ plugins' = r.plugins
    /\ contexts' = r.contexts
    /\ last' = CallOp("execute_plugin_command", GetPlugin(registry, name), name,
                      command, args, r.outcome, r.called)
    /\ UNCHANGED <<fs, written, registry, lifecycle>>

NextDispatch ==
    \/ \E name \in {<<"a">>} : NewContext(name)
    \/ NewExamplePlugin
    \/ \E kind \in PluginKinds, c \in 0..Len(contexts), failExecute \in BOOLEAN :
          NewMockPlugin(kind, c, FALSE, failExecute)
    \/ \E name \in RegistryNames, p \in 1..Len(plugins) : Register(name, p)
    \/ \E p \in 1..Len(plugins), call \in Calls : ExecuteCommand(p, call[1], call[2])
    \/ \E name \in RegistryNames, call \in Calls : ExecutePluginCommand(name, call[1], call[2])
    \/ \E c \in 1..Len(contexts) : WriteDataFile(c, <<"f">>, <<"x">>)

SpecDispatch == InitFiles /\ [][NextDispatch]_vars

----------------------------------------------------------------------------
(* Claims about the isolation of files and data directories *)

\* a path with its ".." components followed, as the filesystem reads it
RECURSIVE Normalize(_, _)
Normalize(done, rest) ==
    IF rest = <<>> THEN done
    ELSE Normalize(IF Head(rest) = DotDot THEN Parent(done) ELSE Append(done, Head(rest)),
                   Tail(rest))

\* the directory a context's files belong in
DataRoot(ctx) == Normalize(<<>>, ctx.data_dir)

StrictlyInside(root, p) == IsPrefix(root, p) /\ p # root

\* the allow-list of identities: non-empty, letters, digits, "_" and "-" only
ValidIdentity(name) ==
    /\ name # <<>>
    /\ \A i \in 1..Len(name) : name[i] \in Letters \cup Digits \cup {"_", "-"}

\* C1: for two contexts with distinct (allow-listed) plugin names and a
\* filename f written through both, read_data_file(f) on each returns what was
\* written through that context: a write through one never changes what the
\* other reads.
C1_FileIsolation ==
    \A c, d \in 1..Len(contexts) : \A f \in FileNames :
        ( /\ contexts[c].plugin_name # contexts[d].plugin_name
          /\ ValidIdentity(contexts[c].plugin_name)
          /\ ValidIdentity(contexts[d].plugin_name)
          /\ f \in DOMAIN written[c]
          /\ f \in DOMAIN written[d] )
        => /\ ReadDataFileResult(fs, contexts[c], f) = Returned(written[c][f])
           /\ ReadDataFileResult(fs, contexts[d], f) = Returned(written[d][f])

\* C2: write_data_file either fails with a path-violation error or writes a
\* file strictly inside the context's own data directory; no call creates or
\* modifies a file outside that directory (stated for the contexts whose name
\* is allow-listed, where the data directory is the plugin's own).
C2_WriteEscapeResistance ==
    [][ ( /\ last'.op = "write_data_file"
          /\ ops' = ops + 1
          /\ ValidIdentity(contexts[last'.ctx].plugin_name) )
        => \/ last'.outcome.exc = "PathViolation"
           \/ \A p \in DOMAIN fs' :
                 (fs'[p].kind = "file" /\ (p \notin DOMAIN fs \/ fs[p] # fs'[p]))
                 => StrictlyInside(DataRoot(contexts[last'.ctx]), p) ]_vars

\* C3: read_data_file returns None whenever the filename, resolved against
\* the data directory, denotes a path outside it, even when a file exists
\* at that outside path (stated for the contexts whose name is allow-listed).
C3_ReadEscapeResistance ==
    (last.op = "read_data_file"
     /\ ValidIdentity(contexts[last.ctx].plugin_name)
     /\ ~StrictlyInside(DataRoot(contexts[last.ctx]),
                        Normalize(<<>>, JoinPath(contexts[last.ctx].data_dir, last.arg))))
    => last.outcome.kind = "none"

\* C4: read_data_file returns None for any filename that was never written
\* through that plugin's context, whatever filename string is passed (stated
\* for the contexts whose name is allow-listed).
C4_NotFoundUniformity ==
    (last.op = "read_data_file"
     /\ ValidIdentity(contexts[last.ctx].plugin_name)
     /\ \A d \in 1..Len(contexts) :
           contexts[d].plugin_name = contexts[last.ctx].plugin_name
           => last.arg \notin DOMAIN written[d])
    => last.outcome.kind = "none"

\* C5: constructing a PluginContext with a name outside the allow-list fails
\* with an invalid-identity error and yields no context.
C5_IdentityValidation ==
    /\ \A c \in 1..Len(contexts) : ValidIdentity(contexts[c].plugin_name)
    /\ (last.op = "PluginContext" /\ ~ValidIdentity(last.arg))
       => last.outcome.exc = "InvalidIdentity"

\* C6: two contexts with different plugin names have different data
\* directories, neither an ancestor of the other.
C6_DataRootDisjoint ==
    \A c, d \in 1..Len(contexts) :
        contexts[c].plugin_name # contexts[d].plugin_name
        => /\ ~IsPrefix(DataRoot(contexts[c]), DataRoot(contexts[d]))
           /\ ~IsPrefix(DataRoot(contexts[d]), DataRoot(contexts[c]))

----------------------------------------------------------------------------
(* Claims about dispatch and the plugins' commands *)

\* C7: execute_plugin_command on a registered plugin returns a result value
\* and never raises, whatever the plugin's execute_command throws.
C7_DispatchNeverRaises ==
    (last.op = "execute_plugin_command" /\ last.plugin # 0)
    => last.outcome.kind # "raise"

\* C8: execute_plugin_command with a name that is not in the registry fails
\* with the plugin-not-found error, calls execute_command on no plugin and
\* leaves the registry (and every plugin and context) unchanged.
C8_DispatchMiss ==
    [][ ( /\ last'.op = "execute_plugin_command"
          /\ ops' = ops + 1
          /\ \A i \in 1..Len(registry) : registry[i].name # last'.name )
        => /\ last'.outcome = CmdRaised("ValueError", "Plugin '{}' not found", last'.name)
           /\ last'.called = {}
           /\ registry' = registry
           /\ plugins' = plugins
           /\ contexts' = contexts ]_vars

\* a miss was dispatched while the registry held a plugin
C8_Witness ==
    /\ last.op = "execute_plugin_command"
    /\ registry # <<>>
    /\ \A i \in 1..Len(registry) : registry[i].name # last.name
    /\ last.outcome.kind = "raise"

IsDeclared(kind, command) ==
    \E i \in 1..Len(GetCommands(kind)) : GetCommands(kind)[i] = command

\* C9: on every plugin implementation, execute_command(c, args) with c not
\* among get_commands() fails with the unknown-command error carrying c.
C9_UnknownCommand ==
    (last.op = "execute_command" /\ ~IsDeclared(plugins[last.plugin].kind, last.command))
    => last.outcome = CmdRaised("ValueError", "Unknown command: {}", last.command)

\* C10: a failed execute_command leaves the contexts' config values and the
\* data files unchanged, and every command called on the same plugin
\* afterwards has the outcome it would have had without the failed call.
C10_FaultContainment ==
    [][ ( /\ last'.op \in {"execute_command", "execute_plugin_command"}
          /\ ops' = ops + 1
          /\ last'.called # {}
          /\ last'.outcome.kind = "raise" )
        => /\ contexts' = contexts
           /\ fs' = fs
           /\ \A call \in Calls :
                 ExecuteCommandResult(plugins', contexts', last'.plugin, call[1], call[2]).outcome
                 = ExecuteCommandResult(plugins, contexts, last'.plugin, call[1], call[2]).outcome
       ]_vars

\* a command failed on a plugin whose context holds a config value
C10_Witness ==
    /\ last.op \in {"execute_command", "execute_plugin_command"}
    /\ last.called # {}
    /\ last.outcome.kind = "raise"
    /\ plugins[last.plugin].context # 0
    /\ contexts[plugins[last.plugin].context].config # <<>>

----------------------------------------------------------------------------
(* Claims about the data files of one context *)

\* C11: after write_data_file(f, c) returns, read_data_file(f) on the same
\* context returns exactly c (so after several writes, the content of the
\* most recent one), and keeps returning it until the next write_data_file.
C11_RoundTrip ==
    [][ /\ ( /\ last'.op = "write_data_file"
             /\ ops' = ops + 1
             /\ last'.outcome.kind # "raise" )
           => ReadDataFileResult(fs', contexts'[last'.ctx], last'.arg)
              = Returned(last'.content)
        /\ ( /\ last'.op # "write_data_file"
             /\ ops' = ops + 1 )
           => \A c \in 1..Len(contexts) : \A f \in DOMAIN written[c] :
                 ReadDataFileResult(fs', contexts'[c], f)
                 = ReadDataFileResult(fs, contexts[c], f)
      ]_vars

\* the names of the regular files that are direct children of a directory
RegularChildren(f, dir) ==
    {p[Len(p)] : p \in {q \in DOMAIN f : q # <<>> /\ Parent(q) = dir /\ f[q].kind = "file"}}

\* C12: list_data_files returns exactly the names of the regular files that
\* are direct children of the context's data directory (no subdirectory, no
\* nested file, no name twice), and the empty list when the data directory
\* does not exist (stated for the contexts whose name is allow-listed).
C12_ListingCorrectness ==
    (last.op = "list_data_files" /\ ValidIdentity(contexts[last.ctx].plugin_name))
    => /\ last.outcome.kind # "raise"
       /\ {last.listing[i] : i \in DOMAIN last.listing}
          = RegularChildren(fs, DataRoot(contexts[last.ctx]))
       /\ Len(last.listing) = Cardinality(RegularChildren(fs, DataRoot(contexts[last.ctx])))
       /\ DataRoot(contexts[last.ctx]) \notin DOMAIN fs => last.listing = <<>>

\* the same, for the calls of list_data_files that return
C12_ListingWhenReturned ==
    (last.op = "list_data_files" /\ last.outcome.kind # "raise")
    => /\ {last.listing[i] : i \in DOMAIN last.listing}
          = RegularChildren(fs, DataRoot(contexts[last.ctx]))
       /\ Len(last.listing) = Cardinality(RegularChildren(fs, DataRoot(contexts[last.ctx])))
       /\ DataRoot(contexts[last.ctx]) \notin DOMAIN fs => last.listing = <<>>

----------------------------------------------------------------------------
(* Configuration of the contexts *)

IntValue(n) == [t |-> "int", s |-> <<n>>, d |-> <<>>]

ConfigKeys == { <<"k">>, <<"j">> }

\* a string, the integer and the string of the same digit, a bool and None
ConfigValues == { StrValue(<<"v">>), StrValue(<<"1">>), IntValue("1"), BoolValue(TRUE), NoneValue }

\* the default argument of get_config: <<>> when the caller omits it
Defaults == { <<>>, <<StrValue(<<"d">>)>>, <<IntValue("1")>> }

ConfigOp(op, c, key, value, default, outcome) ==
    [op |-> op, ctx |-> c, key |-> key, value |-> value, default |-> default,
     outcome |-> outcome]

\* a set_config that stores into one map shared by all the contexts
SetConfigCallShared(c, key, value) ==
    /\ Tick
    /\ contexts' = [d \in DOMAIN contexts |-> SetConfig(contexts[d], key, value)]
    /\ last' = ConfigOp("set_config", c, key, value, <<>>, CmdReturned(NoneValue))
    /\ UNCHANGED <<fs, written, plugins, registry, lifecycle>>

\* a call of set_config(key, value) on the context c
SetConfigCall(c, key, value) ==
    /\ Tick
    /\ contexts' = [contexts EXCEPT ![c] = SetConfig(@, key, value)]
    /\ last' = ConfigOp("set_config", c, key, value, <<>>, CmdReturned(NoneValue))
    /\ UNCHANGED <<fs, written, plugins, registry, lifecycle>>

\* a call of get_config(key) or get_config(key, default) on the context c
GetConfigCall(c, key, default) ==
    /\ Tick
    /\ last' = ConfigOp("get_config", c, key, NoneValue, default,
                        CmdReturned(GetConfig(contexts[c], key,
                                              IF default = <<>> THEN NoneValue ELSE default[1])))
    /\ UNCHANGED <<fs, contexts, written, plugins, registry, lifecycle>>

NextConfig ==
    \/ \E name \in PluginNames : NewContext(name)
    \/ \E c \in 1..Len(contexts), key \in ConfigKeys, value \in ConfigValues :
          SetConfigCall(c, key, value)
    \/ \E c \in 1..Len(contexts), key \in ConfigKeys, default \in Defaults :
          GetConfigCall(c, key, default)

SpecConfig == InitFiles /\ [][NextConfig]_vars

----------------------------------------------------------------------------
(* Claims about the configuration of the contexts *)

\* what get_config(key, default) has to return: default <<>> is the omitted one
DefaultOf(default) == IF default = <<>> THEN NoneValue ELSE default[1]

\* C13: get_config(k) returns the value of the most recent set_config(k, .),
\* with its type (a stored None included), whatever default is passed and
\* whatever was written to other keys: set_config(k, v) makes k read as v and
\* leaves every other key as it read before, and no other call changes what
\* any key reads as.
C13_ConfigLastWriteWins ==
    [][ /\ (last'.op = "set_config" /\ ops' = ops + 1)
           => \A default \in Defaults :
                /\ GetConfig(contexts'[last'.ctx], last'.key, DefaultOf(default)) = last'.value
                /\ \A key \in ConfigKeys \ {last'.key} :
                      GetConfig(contexts'[last'.ctx], key, DefaultOf(default))
                      = GetConfig(contexts[last'.ctx], key, DefaultOf(default))
        /\ (last'.op # "set_config" /\ ops' = ops + 1)
           => \A c \in 1..Len(contexts) : \A key \in ConfigKeys, default \in Defaults :
                 GetConfig(contexts'[c], key, DefaultOf(default))
                 = GetConfig(contexts[c], key, DefaultOf(default))
      ]_vars

\* None was stored under one key of a context whose other key holds a value
C13_Witness ==
    /\ last.op = "set_config"
    /\ last.value = NoneValue
    /\ DOMAIN contexts[last.ctx].config = ConfigKeys
    /\ \E key \in ConfigKeys : contexts[last.ctx].config[key] # NoneValue

\* C14: get_config(key, default) returns the stored value when the key has
\* been set and the default (None when omitted) when it has not; it does not
\* raise and it leaves the config map as it was.
C14_GetConfigDefault ==
    [][ (last'.op = "get_config" /\ ops' = ops + 1)
        => /\ last'.outcome.kind = "value"
           /\ IF last'.key \in DOMAIN contexts[last'.ctx].config
              THEN last'.outcome.val = contexts[last'.ctx].config[last'.key]
              ELSE last'.outcome.val = DefaultOf(last'.default)
           /\ contexts' = contexts
      ]_vars

\* a stored None was looked up with a default
C14_Witness ==
    /\ last.op = "get_config"
    /\ last.default # <<>>
    /\ last.key \in DOMAIN contexts[last.ctx].config
    /\ contexts[last.ctx].config[last.key] = NoneValue

\* C15: a set_config on one context changes what get_config returns on no
\* other context, for any key and default.
C15_ConfigIsolation ==
    [][ (last'.op = "set_config" /\ ops' = ops + 1)
        => \A d \in 1..Len(contexts) :
              d # last'.ctx
              => \A key \in ConfigKeys, default \in Defaults :
                    GetConfig(contexts'[d], key, DefaultOf(default))
                    = GetConfig(contexts[d], key, DefaultOf(default))
      ]_vars

\* a key was set on one context while another context of the same plugin name
\* held another value for it
C15_Witness ==
    /\ last.op = "set_config"
    /\ \E d \in 1..Len(contexts) :
          /\ d # last.ctx
          /\ contexts[d].plugin_name = contexts[last.ctx].plugin_name
          /\ last.key \in DOMAIN contexts[d].config
          /\ contexts[d].config[last.key] # last.value

----------------------------------------------------------------------------
(* Claims about the plugins' contexts and lifecycle *)

\* C16: every plugin instance holds exactly one PluginContext, and no two
\* plugin instances hold the same context object.
C16_ExclusiveContext ==
    \A p \in 1..Len(plugins) :
        /\ plugins[p].context # 0
        /\ \A q \in 1..Len(plugins) : q # p => plugins[q].context # plugins[p].context

----------------------------------------------------------------------------
(* Lifecycle of the plugins: initialize, cleanup, get_info *)

KeyInitTime == <<"i", "n", "i", "t", "_", "t", "i", "m", "e">>

SampleName == <<"s", "a", "m", "p", "l", "e", ".", "t", "x", "t">>

SampleText ==
    <<"T", "h", "i", "s", " ", "i", "s", " ", "a", " ", "s", "a", "m", "p",
      "l", "e", " ", "d", "a", "t", "a", " ", "f", "i", "l", "e", " ", "c",
      "r", "e", "a", "t", "e", "d", " ", "b", "y", " ", "t", "h", "e", " ",
      "e", "x", "a", "m", "p", "l", "e", " ", "p", "l", "u", "g", "i", "n",
      ".">>

\* a float, as time.time() returns
FloatValue(n) == [t |-> "float", s |-> <<n>>, d |-> <<>>]

\* the readings of the clock
Times == {"1", "2"}

LifecycleRaised(outcome) == CmdRaised(outcome.exc, "", "")

\* an initialize that refuses a plugin that is initialized already
ExampleInitializeOnce(f, ctx, now) ==
    LET Configured(c) == SetConfig(SetConfig(c, KeyInitialized, BoolValue(TRUE)),
                                   KeyInitTime, FloatValue(now))
        Written(c1, w) ==
            IF w.outcome.kind = "raise"
            THEN [fs |-> w.fs, ctx |-> c1, outcome |-> LifecycleRaised(w.outcome)]
            ELSE [fs |-> w.fs, ctx |-> c1, outcome |-> CmdReturned(BoolValue(TRUE))]
        Ensured(c1, e) ==
            IF e.outcome.kind = "raise"
            THEN [fs |-> e.fs, ctx |-> c1, outcome |-> LifecycleRaised(e.outcome)]
            ELSE Written(c1, WriteDataFileResult(e.fs, c1, SampleName, SampleText))
    IN  IF GetConfig(ctx, KeyInitialized, BoolValue(FALSE)) = BoolValue(TRUE)
        THEN [fs |-> f, ctx |-> ctx,
              outcome |-> CmdRaised("RuntimeError", "already initialized", "")]
        ELSE Ensured(Configured(ctx), EnsureDataDirResult(f, Configured(ctx)))

\* ExamplePlugin.initialize: the config is set before the directory and the
\* sample file are written, so a failure of these leaves the config set
ExampleInitialize(f, ctx, now) ==
    LET Configured(c) == SetConfig(SetConfig(c, KeyInitialized, BoolValue(TRUE)),
                                   KeyInitTime, FloatValue(now))
        Written(c1, w) ==
            IF w.outcome.kind = "raise"
            THEN [fs |-> w.fs, ctx |-> c1, outcome |-> LifecycleRaised(w.outcome)]
            ELSE [fs |-> w.fs, ctx |-> c1, outcome |-> CmdReturned(BoolValue(TRUE))]
        Ensured(c1, e) ==
            IF e.outcome.kind = "raise"
            THEN [fs |-> e.fs, ctx |-> c1, outcome |-> LifecycleRaised(e.outcome)]
            ELSE Written(c1, WriteDataFileResult(e.fs, c1, SampleName, SampleText))
    IN  Ensured(Configured(ctx), EnsureDataDirResult(f, Configured(ctx)))

\* initialize() of each implementation
InitializeResult(plugs, ctxs, f, p, now) ==
    LET plugin == plugs[p] IN
    CASE plugin.kind = "ExamplePlugin" ->
            LET Done(r) ==
                    [plugins |-> plugs, contexts |-> [ctxs EXCEPT ![plugin.context] = r.ctx],
                     fs |-> r.fs, outcome |-> r.outcome]
            IN  Done(ExampleInitialize(f, ctxs[plugin.context], now))
      [] plugin.kind = "MockSimplePlugin" ->
            [plugins |-> [plugs EXCEPT ![p].initialized = TRUE], contexts |-> ctxs,
             fs |-> f, outcome |-> CmdReturned(BoolValue(TRUE))]
      [] plugin.kind = "MockComplexPlugin" ->
            [plugins |-> [plugs EXCEPT ![p].initialized = TRUE],
             contexts |-> IF plugin.context # 0
                          THEN [ctxs EXCEPT ![plugin.context] =
                                   SetConfig(@, KeyInitialized, BoolValue(TRUE))]
                          ELSE ctxs,
             fs |-> f, outcome |-> CmdReturned(BoolValue(TRUE))]
      [] plugin.kind = "MockFailingPlugin" ->
            [plugins |-> plugs, contexts |-> ctxs, fs |-> f,
             outcome |-> IF plugin.fail_on_init
                         THEN CmdRaised("RuntimeError", "Plugin configured to fail on init", "")
                         ELSE CmdReturned(BoolValue(TRUE))]

\* a cleanup that counts the executions down instead of resetting the counter
CleanupResultCountdown(plugs, p) ==
    LET plugin == plugs[p] IN
    CASE plugin.kind = "MockSimplePlugin" -> [plugs EXCEPT ![p].initialized = FALSE]
      [] plugin.kind = "MockComplexPlugin" ->
            [plugs EXCEPT ![p].initialized = FALSE, ![p].execution_count = @ - 1,
                          ![p].config = <<>>]
      [] OTHER -> plugs

\* cleanup() of each implementation
CleanupResult(plugs, p) ==
    LET plugin == plugs[p] IN
    CASE plugin.kind = "MockSimplePlugin" -> [plugs EXCEPT ![p].initialized = FALSE]
      [] plugin.kind = "MockComplexPlugin" ->
            [plugs EXCEPT ![p].initialized = FALSE, ![p].execution_count = 0,
                          ![p].config = <<>>]
      [] OTHER -> plugs

\* the entries of get_info() that differ between the implementations;
\* listing is the data_files entry, execution_count is -1 where there is none
Info(hasInitialized, initialized, count, listing) ==
    [has_initialized |-> hasInitialized, initialized |-> initialized,
     execution_count |-> count, data_files |-> listing]

\* get_info() of each implementation, given the order iterdir yields
GetInfoResult(plugs, ctxs, p, listing) ==
    LET plugin == plugs[p] IN
    CASE plugin.kind = "ExamplePlugin" ->
            Info(TRUE, GetConfig(ctxs[plugin.context], KeyInitialized, BoolValue(FALSE)),
                 -1, listing)
      [] plugin.kind = "MockSimplePlugin" ->
            Info(TRUE, BoolValue(plugin.initialized), -1, <<>>)
      [] plugin.kind = "MockComplexPlugin" ->
            Info(TRUE, BoolValue(plugin.initialized), plugin.execution_count, <<>>)
      [] plugin.kind = "MockFailingPlugin" ->
            Info(FALSE, NoneValue, -1, <<>>)

----------------------------------------------------------------------------
(* Lifecycle operations and the host entry point *)

\* a filename that lands on the data directory of the example plugin
BlockingName == <<".", ".", "/", "e", "x", "a", "m", "p", "l", "e">>

\* the calls of execute_command made by main()
MainCalls ==
    << <<"hello", <<>>>>,
       <<"hello", << <<"A", "I">>, <<"D", "e", "v", "e", "l", "o", "p", "e", "r">> >>>>,
       <<"features", <<>>>>,
       <<"calculate", << <<"1", "0">>, <<"3">> >>>> >>

LifecycleCalls == { <<"hello", <<>>>>, <<"test", <<>>>> }

LifeOp(op, p, outcome, info, called) ==
    [op |-> op, plugin |-> p, outcome |-> outcome, info |-> info, called |-> called]

NoInfo == Info(FALSE, NoneValue, -1, <<>>)

Succeeded(outcome) == outcome = CmdReturned(BoolValue(TRUE))

\* the history after an initialize() with this outcome
Initialized(h, outcome) ==
    IF Succeeded(outcome)
    THEN [h EXCEPT !.ready = TRUE, !.initializes = @ + 1]
    ELSE [h EXCEPT !.failed = TRUE, !.initializes = @ + 1]

\* the files written through the contexts, after initialize() on plugin p
WrittenAfterInitialize(w, plugs, p, outcome) ==
    IF plugs[p].kind = "ExamplePlugin" /\ Succeeded(outcome)
    THEN [w EXCEPT ![plugs[p].context] = (SampleName :> SampleText) @@ @]
    ELSE w

\* plugin.initialize()
Initialize(p, now) ==
    \E r \in {InitializeResult(plugins, contexts, fs, p, now)} :
        /\ Tick
        /\ plugins' = r.plugins
        /\ contexts' = r.contexts
        /\ fs' = r.fs
        /\ written' = WrittenAfterInitialize(written, plugins, p, r.outcome)
        /\ lifecycle' = [lifecycle EXCEPT ![p] = Initialized(@, r.outcome)]
        /\ last' = LifeOp("initialize", p, r.outcome, NoInfo, {})
        /\ UNCHANGED registry

\* plugin.cleanup()
Cleanup(p) ==
    /\ Tick
    /\ plugins' = CleanupResult(plugins, p)
    /\ lifecycle' = [lifecycle EXCEPT ![p].ready = FALSE, ![p].cleanups = @ + 1]
    /\ last' = LifeOp("cleanup", p, CmdReturned(NoneValue), NoInfo, {})
    /\ UNCHANGED <<fs, contexts, written, registry>>

\* plugin.get_info(); ExamplePlugin lists its data files on the way
GetInfo(p) ==
    /\ Tick
    /\ IF plugins[p].kind = "ExamplePlugin" /\ PathExists(fs, contexts[plugins[p].context].data_dir)
       THEN IF PathIsDir(fs, contexts[plugins[p].context].data_dir)
            THEN \E o \in Orderings(DataFileNames(fs, contexts[plugins[p].context])) :
                    last' = LifeOp("get_info", p, CmdReturned(NoneValue),
                                   GetInfoResult(plugins, contexts, p, o), {})
            ELSE last' = LifeOp("get_info", p, CmdRaised("NotADirectoryError", "", ""),
                                NoInfo, {})
       ELSE last' = LifeOp("get_info", p, CmdReturned(NoneValue),
                           GetInfoResult(plugins, contexts, p, <<>>), {})
    /\ UNCHANGED <<fs, contexts, written, plugins, registry, lifecycle>>

\* the calls in main()'s try block: made in order, up to the first that raises
RECURSIVE RunCalls(_, _, _, _)
RunCalls(plugs, ctxs, p, calls) ==
    LET Then(r, rest) ==
            IF r.outcome.kind = "raise"
            THEN [plugins |-> r.plugins, contexts |-> r.contexts, outcomes |-> <<r.outcome>>]
            ELSE [rest EXCEPT !.outcomes = <<r.outcome>> \o @]
        After(r) == Then(r, IF r.outcome.kind = "raise" THEN r
                            ELSE RunCalls(r.plugins, r.contexts, p, Tail(calls)))
    IN  IF calls = <<>> THEN [plugins |-> plugs, contexts |-> ctxs, outcomes |-> <<>>]
        ELSE After(ExecuteCommandResult(plugs, ctxs, p, calls[1][1], calls[1][2]))

\* main(): a new manager and a new ExamplePlugin registered as "example";
\* initialize() in a try block whose failure is only printed; then the calls
\* of MainCalls on the plugin; returns 0
Main(now) ==
    LET p     == Len(plugins) + 1
        c     == Len(contexts) + 1
        plugs == Append(plugins, PluginObject("ExamplePlugin", c, FALSE, FALSE))
        ctxs  == Append(contexts, PluginContextInit(ExampleName))
    IN  \E r \in {InitializeResult(plugs, ctxs, fs, p, now)} :
        \E run \in {RunCalls(r.plugins, r.contexts, p, MainCalls)} :
            /\ Tick
            /\ Len(plugins) < MaxPlugins
            /\ Len(contexts) < MaxContexts
            /\ plugins' = run.plugins
            /\ contexts' = run.contexts
            /\ fs' = r.fs
            /\ written' = WrittenAfterInitialize(Append(written, <<>>), plugs, p, r.outcome)
            /\ lifecycle' = Append(lifecycle, Initialized(NoLifecycle, r.outcome))
            /\ last' = LifeOp("main", p, CmdReturned(IntValue("0")), NoInfo,
                              IF run.outcomes = <<>> THEN {} ELSE {p})
            /\ UNCHANGED registry

NextLifecycle ==
    \/ \E name \in {<<"a">>} : NewContext(name)
    \/ \E c \in 1..Len(contexts) : WriteDataFile(c, BlockingName, <<"x">>)
    \/ NewExamplePlugin
    \/ \E kind \in PluginKinds, c \in 0..Len(contexts), failInit \in BOOLEAN :
          NewMockPlugin(kind, c, failInit, FALSE)
    \/ \E name \in {"mock"}, p \in 1..Len(plugins) : Register(name, p)
    \/ \E p \in 1..Len(plugins), now \in Times : Initialize(p, now)
    \/ \E p \in 1..Len(plugins) : Cleanup(p)
    \/ \E p \in 1..Len(plugins) : GetInfo(p)
    \/ \E p \in 1..Len(plugins), call \in LifecycleCalls : ExecuteCommand(p, call[1], call[2])
    \/ \E call \in LifecycleCalls : ExecutePluginCommand("mock", call[1], call[2])
    \/ \E now \in Times : Main(now)

SpecLifecycle == InitFiles /\ [][NextLifecycle]_vars

----------------------------------------------------------------------------
(* Claims about the lifecycle *)

\* C17: once initialize() on a plugin has returned False or raised, no
\* execute_command call is made on that plugin, neither by main() nor by
\* PluginManager.execute_plugin_command.
C17_NoDispatchAfterFailedInitialize ==
    last.op \in {"main", "execute_plugin_command"}
    => \A p \in last.called : ~lifecycle[p].failed

\* C18: the initialized status a plugin reports in get_info() is True exactly
\* when an initialize() call has succeeded and no cleanup() has been called
\* since (stated for the get_info() calls that return a status).
C18_StatusTruthful ==
    (last.op = "get_info" /\ last.outcome.kind = "value" /\ last.info.has_initialized)
    => last.info.initialized = BoolValue(lifecycle[last.plugin].ready)

\* C19: cleanup() raises no error in any lifecycle state, leaves every data
\* file as it was, and a cleanup() that directly follows a cleanup() of the
\* same plugin changes nothing: the state is that of a single cleanup().
C19_CleanupIdempotent ==
    [][ (last'.op = "cleanup" /\ ops' = ops + 1)
        => /\ last'.outcome.kind = "value"
           /\ fs' = fs
           /\ (last.op = "cleanup" /\ last.plugin = last'.plugin)
              => (plugins' = plugins /\ contexts' = contexts)
      ]_vars

\* cleanup() was called a second time on a plugin that had been initialized
\* and whose context holds data files
C19_Witness ==
    /\ last.op = "cleanup"
    /\ \E p \in 1..Len(plugins) :
          /\ p = last.plugin
          /\ plugins[p].context # 0
          /\ lifecycle[p].initializes >= 1
          /\ lifecycle[p].cleanups >= 2
          /\ DataFileNames(fs, contexts[plugins[p].context]) # {}

\* the status get_info() reports for plugin p
ReportedStatus(plugs, ctxs, p) == GetInfoResult(plugs, ctxs, p, <<>>).initialized

\* C20 as stated: initialize() called twice in a row on a plugin returns True
\* both times, and the second call leaves the initialized flag and the data
\* files (names and contents) as the first call left them.
C20_RepeatableInitialize ==
    [][ ( /\ last.op = "initialize"
          /\ last'.op = "initialize"
          /\ ops' = ops + 1
          /\ last'.plugin = last.plugin )
        => /\ Succeeded(last.outcome)
           /\ Succeeded(last'.outcome)
           /\ ReportedStatus(plugins', contexts', last.plugin)
              = ReportedStatus(plugins, contexts, last.plugin)
           /\ fs' = fs
      ]_vars

\* C20, amended: an initialize() that directly follows an initialize() of the
\* same plugin that returned True returns True as well, and leaves the
\* initialized flag and the data files (names and contents) as they were.
C20_RepeatableAfterSuccess ==
    [][ ( /\ last.op = "initialize"
          /\ Succeeded(last.outcome)
          /\ last'.op = "initialize"
          /\ ops' = ops + 1
          /\ last'.plugin = last.plugin )
        => /\ Succeeded(last'.outcome)
           /\ ReportedStatus(plugins', contexts', last.plugin)
              = ReportedStatus(plugins, contexts, last.plugin)
           /\ fs' = fs
      ]_vars

\* initialize() returned True for the second time on an example plugin whose
\* sample file exists, with no cleanup() and no failure in between
C20_Witness ==
    /\ last.op = "initialize"
    /\ Succeeded(last.outcome)
    /\ plugins[last.plugin].kind = "ExamplePlugin"
    /\ lifecycle[last.plugin].initializes >= 2
    /\ lifecycle[last.plugin].cleanups = 0
    /\ ~lifecycle[last.plugin].failed
    /\ SampleName \in DataFileNames(fs, contexts[plugins[last.plugin].context])

----------------------------------------------------------------------------
(* The registry of the PluginManager *)

ManagerNames == {"example", "mock", "other"}

RegistryOp(op, name, p, listing) ==
    [op |-> op, name |-> name, plugin |-> p, listing |-> listing,
     outcome |-> CmdReturned(NoneValue)]

\* plugin_manager.list_plugins()
ListPluginsCall ==
    /\ Tick
    /\ last' = RegistryOp("list_plugins", "", 0, ListPlugins(registry))
    /\ UNCHANGED <<fs, contexts, written, plugins, registry, lifecycle>>

\* plugin_manager.get_plugin(name)
GetPluginCall(name) ==
    /\ Tick
    /\ last' = RegistryOp("get_plugin", name, GetPlugin(registry, name), <<>>)
    /\ UNCHANGED <<fs, contexts, written, plugins, registry, lifecycle>>

\* plugin_manager.load_plugins(): _load_plugins_from_directory does nothing
LoadPlugins ==
    /\ Tick
    /\ last' = RegistryOp("load_plugins", "", 0, <<>>)
    /\ UNCHANGED <<fs, contexts, written, plugins, registry, lifecycle>>

NextRegistry ==
    \/ NewExamplePlugin
    \/ \E kind \in {"MockSimplePlugin"} : NewMockPlugin(kind, 0, FALSE, FALSE)
    \/ \E name \in ManagerNames, p \in 1..Len(plugins) : Register(name, p)
    \/ ListPluginsCall
    \/ \E name \in ManagerNames : GetPluginCall(name)
    \/ LoadPlugins

SpecRegistry == InitFiles /\ [][NextRegistry]_vars

----------------------------------------------------------------------------
(* Claims about the registry *)

RegisteredNames(reg) == {reg[i].name : i \in 1..Len(reg)}

\* C21: adding a plugin under an identity that is already in the registry
\* fails with a duplicate-identity error and leaves the plugin registered
\* before in place; no other operation adds an entry.
C21_DuplicateRejected ==
    [][ /\ ( /\ last'.op = "register"
             /\ ops' = ops + 1
             /\ last'.name \in RegisteredNames(registry) )
           => (last'.outcome.kind = "raise" /\ registry' = registry)
        /\ ( /\ last'.op # "register"
             /\ ops' = ops + 1 )
           => registry' = registry
      ]_vars

\* C22: list_plugins returns every registered identity once, in the order of
\* first registration, and get_plugin(name) returns the plugin registered
\* under name, or None: a registration of a new name appends it to the
\* listing, a registration of a known name leaves the listing as it is, and
\* the name then maps to the plugin registered; nothing else changes either.
C22_ListingOrder ==
    [][ /\ (last'.op = "register" /\ ops' = ops + 1)
           => /\ ListPlugins(registry')
                 = IF last'.name \in RegisteredNames(registry)
                   THEN ListPlugins(registry)
                   ELSE Append(ListPlugins(registry), last'.name)
              /\ GetPlugin(registry', last'.name) = last'.plugin
              /\ \A name \in ManagerNames \ {last'.name} :
                    GetPlugin(registry', name) = GetPlugin(registry, name)
        /\ (last'.op # "register" /\ ops' = ops + 1)
           => /\ ListPlugins(registry') = ListPlugins(registry)
              /\ \A name \in ManagerNames : GetPlugin(registry', name) = GetPlugin(registry, name)
        /\ (last'.op = "list_plugins" /\ ops' = ops + 1)
           => /\ last'.outcome.kind = "value"
              /\ last'.listing = ListPlugins(registry)
              /\ \A i, j \in 1..Len(last'.listing) :
                    last'.listing[i] = last'.listing[j] => i = j
        /\ (last'.op = "get_plugin" /\ ops' = ops + 1)
           => /\ last'.outcome.kind = "value"
              /\ last'.plugin = GetPlugin(registry, last'.name)
              /\ last'.name \notin RegisteredNames(registry) => last'.plugin = 0
      ]_vars

\* the name registered first was registered again while a second name was
\* in the registry
C22_Witness ==
    /\ last.op = "register"
    /\ ops >= 4
    /\ Len(registry) = 2
    /\ last.name = registry[1].name

----------------------------------------------------------------------------
(* The commands and their arguments *)

\* first and second operands callers pass to calculate
FirstOperands == {<<"1", "0">>, <<"7">>, <<"0">>, <<"-", "1">>, <<"-", "7">>}

SecondOperands == {<<"3">>, <<"2">>, <<"0">>, <<"-", "0">>, <<"-", "1">>, <<"-", "3">>}

\* texts float() rejects
NotNumbers == {ArgK, <<>>, <<"-">>}

\* every argument list of at most three arguments over k and v
ShortArgs == {<<>>, <<ArgK>>, <<ArgK, ArgV>>, <<ArgK, ArgV, ArgK>>}

\* the (command, args) pairs callers pass
CommandCalls ==
    {<<"calculate", <<a, b>>>> : a \in FirstOperands, b \in SecondOperands}
    \cup {<<"calculate", <<a, b>>>> : a \in NotNumbers, b \in {<<"3">>}}
    \cup {<<"calculate", <<a, b>>>> : a \in {<<"7">>}, b \in NotNumbers}
    \cup {<<"calculate", <<>>>>, <<"calculate", <<<<"7">>>>>>,
          <<"calculate", <<<<"7">>, <<"3">>, <<"2">>>>>>}
    \cup {<<c, args>> : c \in {"ai-query", "config", "store", "retrieve"}, args \in ShortArgs}

NextCommands ==
    \/ \E name \in {<<"a">>} : NewContext(name)
    \/ NewExamplePlugin
    \/ \E c \in 0..Len(contexts) : NewMockPlugin("MockComplexPlugin", c, FALSE, FALSE)
    \/ \E p \in 1..Len(plugins), call \in CommandCalls : ExecuteCommand(p, call[1], call[2])

SpecCommands == InitFiles /\ [][NextCommands]_vars

\* a text of the shape float() is given here: digits, with or without a sign
IsNumeral(s) ==
    \/ AllDigits(s)
    \/ s # <<>> /\ Head(s) \in {"-", "+"} /\ AllDigits(Tail(s))

\* the argument list does not have the shape the command expects
InvalidArguments(kind, command, args) ==
    \/ /\ kind \in {"ExamplePlugin", "MockComplexPlugin"}
       /\ command = "calculate"
       /\ Len(args) # 2 \/ \E i \in 1..Len(args) : ~IsNumeral(args[i])
    \/ kind = "ExamplePlugin" /\ command = "ai-query" /\ args = <<>>
    \/ kind = "MockComplexPlugin" /\ command = "config" /\ Len(args) \notin {1, 2}
    \/ kind = "MockComplexPlugin" /\ command = "store" /\ Len(args) # 2
    \/ kind = "MockComplexPlugin" /\ command = "retrieve" /\ Len(args) # 1

OperandA == ParseFloat(last.args[1]).v

OperandB == ParseFloat(last.args[2]).v

\* the last step was ExamplePlugin's calculate on two numbers
CalculatedOnNumbers ==
    /\ last.op = "execute_command"
    /\ plugins[last.plugin].kind = "ExamplePlugin"
    /\ last.command = "calculate"
    /\ Len(last.args) = 2
    /\ IsNumeral(last.args[1])
    /\ IsNumeral(last.args[2])

\* C24: ExamplePlugin's calculate with second operand 0 raises nothing and
\* returns the sentinel "undefined" for the quotient and for the modulo,
\* whatever the first operand.
C24_DivisionByZeroSentinel ==
    (CalculatedOnNumbers /\ OperandB = 0)
    => /\ last.outcome.kind = "value"
       /\ last.outcome.val.d[1].quotient = Undefined
       /\ last.outcome.val.d[1].modulo = Undefined

\* calculate was called with a negative first operand and the second "-0"
C24_Witness ==
    /\ CalculatedOnNumbers
    /\ OperandA < 0
    /\ last.args[2] = <<"-", "0">>
    /\ last.outcome.kind = "value"

\* the exact number q is n / m
IsRatio(q, n, m) == q.d # 0 /\ q.n * m = n * q.d

\* C25: for any two numeric arguments a and b, calculate returns a mapping
\* with sum = a + b, difference = a - b, product = a * b and, when b # 0,
\* quotient = a / b.
C25_ReferenceArithmetic ==
    CalculatedOnNumbers
    => /\ last.outcome.kind = "value"
       /\ LET results == last.outcome.val.d[1] IN
          /\ results.sum = Number(OperandA + OperandB)
          /\ results.difference = Number(OperandA - OperandB)
          /\ results.product = Number(OperandA * OperandB)
          /\ OperandB # 0 => IsRatio(results.quotient, OperandA, OperandB)

\* the same arithmetic where calculate returns
C25_ArithmeticWhenReturned ==
    (CalculatedOnNumbers /\ last.outcome.kind = "value")
    => LET results == last.outcome.val.d[1] IN
       /\ results.sum = Number(OperandA + OperandB)
       /\ results.difference = Number(OperandA - OperandB)
       /\ results.product = Number(OperandA * OperandB)
       /\ OperandB # 0 => IsRatio(results.quotient, OperandA, OperandB)

----------------------------------------------------------------------------
(* Concurrent callers.  Neither PluginManager.execute_plugin_command nor any
   execute_command takes a lock, so a caller that has entered a plugin's
   execute_command can be preempted there while another caller enters. *)

\* the (command, args) pairs concurrent callers pass
ConcurrentCalls ==
    { <<"calculate", << <<"1", "0">>, <<"3">> >>>>, <<"config", <<ArgK, ArgV>>>>,
      <<"hello", <<>>>> }

\* a caller inside plugin p's execute_command
Inside(p, name, command, args) ==
    [pc |-> "execute_command", plugin |-> p, name |-> name, command |-> command, args |-> args]

\* entry into execute_command: MockComplexPlugin counts the call first
Entered(plugs, p) ==
    IF plugs[p].kind = "MockComplexPlugin"
    THEN [plugs EXCEPT ![p].execution_count = @ + 1]
    ELSE plugs

\* caller t calls plugin.execute_command(command, args) and enters it
EnterExecuteCommand(t, p, command, args) ==
    /\ ops < MaxOps
    /\ ops' = ops + 1
    /\ running[t] = Idle
    /\ running' = [running EXCEPT ![t] = Inside(p, "", command, args)]
    /\ plugins' = Entered(plugins, p)
    /\ last' = CallOp("enter", p, "", command, args, CmdReturned(NoneValue), {p})
    /\ UNCHANGED <<fs, contexts, written, registry, plugin_paths, lifecycle, equiv>>

\* caller t calls plugin_manager.execute_plugin_command(name, command, args):
\* the lookup, and either the error or the entry into execute_command
EnterExecutePluginCommand(t, name, command, args) ==
    /\ ops < MaxOps
    /\ ops' = ops + 1
    /\ running[t] = Idle
    /\ \E p \in {GetPlugin(registry, name)} :
          IF p = 0
          THEN /\ running' = running
               /\ plugins' = plugins
               /\ last' = CallOp("execute_plugin_command", 0, name, command, args,
                                 CmdRaised("ValueError", "Plugin '{}' not found", name), {})
          ELSE /\ running' = [running EXCEPT ![t] = Inside(p, name, command, args)]
               /\ plugins' = Entered(plugins, p)
               /\ last' = CallOp("enter", p, name, command, args, CmdReturned(NoneValue), {p})
    /\ UNCHANGED <<fs, contexts, written, registry, plugin_paths, lifecycle, equiv>>

\* the rest of execute_command after its entry
Body(plugs, ctxs, p, command, args) ==
    IF plugs[p].kind = "MockComplexPlugin"
    THEN LET Done(r) == [plugins |-> [plugs EXCEPT ![p] = r.plugin],
                         contexts |-> r.contexts, outcome |-> r.outcome]
         IN Done(MockComplexExecute(plugs[p], ctxs, command, args))
    ELSE ExecuteCommandResult(plugs, ctxs, p, command, args)

\* caller t runs the rest of the command and returns from it
ReturnFromCommand(t) ==
    /\ ops < MaxOps
    /\ ops' = ops + 1
    /\ running[t].pc = "execute_command"
    /\ \E r \in {Body(plugins, contexts, running[t].plugin, running[t].command, running[t].args)} :
          /\ plugins' = r.plugins
          /\ contexts' = r.contexts
          /\ last' = CallOp("return", running[t].plugin, running[t].name,
                            running[t].command, running[t].args, r.outcome, {running[t].plugin})
    /\ running' = [running EXCEPT ![t] = Idle]
    /\ UNCHANGED <<fs, written, registry, plugin_paths, lifecycle, equiv>>

NextConcurrent ==
    \/ NewExamplePlugin
    \/ NewMockPlugin("MockComplexPlugin", 0, FALSE, FALSE)
    \/ \E name \in RegistryNames, p \in 1..Len(plugins) : Register(name, p)
    \/ \E t \in Callers, p \in 1..Len(plugins), call \in ConcurrentCalls :
          EnterExecuteCommand(t, p, call[1], call[2])
    \/ \E t \in Callers, name \in RegistryNames, call \in ConcurrentCalls :
          EnterExecutePluginCommand(t, name, call[1], call[2])
    \/ \E t \in Callers : ReturnFromCommand(t)

SpecConcurrent == InitFiles /\ [][NextConcurrent]_vars

\* C26: no two execute_command invocations on the same plugin instance
\* overlap in time: two callers that are inside execute_command at once are
\* inside different plugins.
C26_PerPluginSerialization ==
    \A t, u \in Callers :
        ( /\ t # u
          /\ running[t].pc = "execute_command"
          /\ running[u].pc = "execute_command" )
        => running[t].plugin # running[u].plugin

\* invocations on different plugins do interleave
C26_DifferentPluginsInterleave ==
    \E t, u \in Callers :
        /\ running[t].pc = "execute_command"
        /\ running[u].pc = "execute_command"
        /\ running[t].plugin # running[u].plugin

----------------------------------------------------------------------------
(* The public operations of one PluginContext, taken together *)

KeyPluginName == <<"p", "l", "u", "g", "i", "n", "_", "n", "a", "m", "e">>

\* the keys and values callers pass to set_config here
ContextKeys == {<<"k">>, KeyPluginName}

ContextValues == {StrValue(<<"b">>), NoneValue}

\* filenames that differ as strings
PlainFileNames == {<<"f">>, <<".", "/", "f">>, <<"g">>}

PlainContents == {<<"x">>, <<"y">>}

NextContext ==
    \/ \E name \in {<<"a">>, <<"b">>} : NewContext(name)
    \/ \E c \in 1..Len(contexts), key \in ContextKeys, value \in ContextValues :
          SetConfigCall(c, key, value)
    \/ \E c \in 1..Len(contexts), key \in ContextKeys : GetConfigCall(c, key, <<>>)
    \/ \E c \in 1..Len(contexts) : EnsureDataDir(c)
    \/ \E c \in 1..Len(contexts), filename \in PlainFileNames, content \in PlainContents :
          WriteDataFile(c, filename, content)
    \/ \E c \in 1..Len(contexts), filename \in PlainFileNames : ReadDataFile(c, filename)
    \/ \E c \in 1..Len(contexts) : ListDataFiles(c)

SpecContext == InitFiles /\ [][NextContext]_vars

\* C27: two distinct filename strings denote distinct files: a
\* write_data_file(f1, content) never changes what read_data_file(f2) returns
\* on the same context, for any f2 # f1.
C27_OpaqueFilenames ==
    [][ (last'.op = "write_data_file" /\ ops' = ops + 1)
        => \A f2 \in PlainFileNames \ {last'.arg} :
              ReadDataFileResult(fs', contexts[last'.ctx], f2)
                  = ReadDataFileResult(fs, contexts[last'.ctx], f2) ]_vars

\* C28: no public operation of a context (set_config with any key, the key
\* "plugin_name" included, get_config, ensure_data_dir, read_data_file,
\* write_data_file, list_data_files) changes the plugin_name of a context or
\* the directory its get_data_dir returns.
C28_IdentityFixed ==
    [][ \A c \in 1..Len(contexts) :
           /\ contexts'[c].plugin_name = contexts[c].plugin_name
           /\ GetDataDir(contexts'[c]) = GetDataDir(contexts[c])
           /\ GetDataDir(contexts'[c]) = JoinPath(PluginsRoot, contexts[c].plugin_name) ]_vars

\* set_config("plugin_name", "b") was the last call, on the context named "a"
C28_Witness ==
    /\ last.op = "set_config"
    /\ last.key = KeyPluginName
    /\ last.value = StrValue(<<"b">>)
    /\ contexts[last.ctx].plugin_name = <<"a">>
    /\ GetConfig(contexts[last.ctx], KeyPluginName, NoneValue) = StrValue(<<"b">>)

\* C29: each ensure_data_dir call leaves the data directory existing, and a
\* call made when the directory already exists raises nothing and leaves
\* every file unchanged (stated for the contexts whose name is allow-listed).
C29_EnsureDataDirIdempotent ==
    [][ ( /\ last'.op = "ensure_data_dir"
          /\ ops' = ops + 1
          /\ ValidIdentity(contexts[last'.ctx].plugin_name) )
        => /\ PathIsDir(fs', GetDataDir(contexts[last'.ctx]))
           /\ PathIsDir(fs, GetDataDir(contexts[last'.ctx]))
                 => (last'.outcome.kind # "raise" /\ fs' = fs) ]_vars

\* the same, where no file stands in the place of the data directory
C29_IdempotentWhenNotBlocked ==
    [][ ( /\ last'.op = "ensure_data_dir"
          /\ ops' = ops + 1
          /\ ValidIdentity(contexts[last'.ctx].plugin_name)
          /\ ~PathIsFile(fs, GetDataDir(contexts[last'.ctx])) )
        => /\ PathIsDir(fs', GetDataDir(contexts[last'.ctx]))
           /\ PathIsDir(fs, GetDataDir(contexts[last'.ctx]))
                 => (last'.outcome.kind # "raise" /\ fs' = fs) ]_vars

----------------------------------------------------------------------------
(* The methods a context offers.  The contexts of this model are objects of
   core.PluginContext, the class example_plugin.py imports and the one the
   plugins are handed. *)

\* the methods core.PluginContext defines
ContextMethods ==
    {"get_config", "set_config", "get_data_dir", "ensure_data_dir",
     "read_data_file", "write_data_file", "list_data_files"}

\* the methods callers ask a context for
RequestedMethods == {"get_data_dir", "get_ai_provider", "get_project_memory"}

PathValue(p) == [t |-> "PosixPath", s |-> <<>>, d |-> p]

MethodOp(op, c, outcome) == [op |-> op, ctx |-> c, outcome |-> outcome]

\* context.<method>() for a method without arguments: the attribute lookup,
\* then the call
CallMethodResult(ctx, method) ==
    IF method \notin ContextMethods
    THEN CmdRaised("AttributeError", "'PluginContext' object has no attribute '{}'", method)
    ELSE IF method = "get_data_dir" THEN CmdReturned(PathValue(GetDataDir(ctx)))
    ELSE CmdReturned(NoneValue)

CallMethod(c, method) ==
    /\ Tick
    /\ last' = MethodOp(method, c, CallMethodResult(contexts[c], method))
    /\ UNCHANGED <<fs, contexts, written, plugins, registry, lifecycle>>

NextCapabilities ==
    \/ \E name \in PluginNames : NewContext(name)
    \/ NewExamplePlugin
    \/ \E kind \in PluginKinds, c \in 0..Len(contexts) : NewMockPlugin(kind, c, FALSE, FALSE)
    \/ \E c \in 1..Len(contexts), method \in RequestedMethods : CallMethod(c, method)
    \/ \E p \in 1..Len(plugins) : ExecuteCommand(p, "ai-query", <<ArgK>>)

SpecCapabilities == InitFiles /\ [][NextCapabilities]_vars

\* the context c is the context of some plugin
Bound(c) == \E p \in 1..Len(plugins) : plugins[p].context = c

\* C30: every context a plugin is bound to hands out, on request, an AI
\* provider handle (get_ai_provider) and a project memory handle
\* (get_project_memory): the call returns a handle and raises nothing; the
\* context ExamplePlugin constructs for itself included.
C30_CapabilityHandOut ==
    ( /\ last.op \in {"get_ai_provider", "get_project_memory"}
      /\ Bound(last.ctx) )
    => /\ last.outcome.kind = "value"
       /\ last.outcome.val # NoneValue

----------------------------------------------------------------------------
(* Claims about the listing, the commands and the manager *)

\* no other context shares the name, hence the data directory, of context c
OwnDirectory(c) ==
    \A d \in 1..Len(contexts) : d # c => contexts[d].plugin_name # contexts[c].plugin_name

\* the names of a listing, and whether each appears once
ListedNames(listing) == {listing[i] : i \in 1..Len(listing)}

ListedOnce(listing) == \A i, j \in 1..Len(listing) : listing[i] = listing[j] => i = j

\* C31: after any sequence of successful write_data_file calls on a context
\* whose data directory started empty, list_data_files returns exactly the
\* set of distinct filenames that were written, each once.
C31_ListingIsIndex ==
    ( /\ last.op = "list_data_files"
      /\ OwnDirectory(last.ctx) )
    => /\ last.outcome.kind # "raise"
       /\ ListedNames(last.listing) = DOMAIN written[last.ctx]
       /\ ListedOnce(last.listing)

\* the same for the filenames that are a single plain component
C31_ListingOfPlainNames ==
    ( /\ last.op = "list_data_files"
      /\ OwnDirectory(last.ctx)
      /\ \A f \in DOMAIN written[last.ctx] : PathParts(f) = <<f>> )
    => /\ last.outcome.kind # "raise"
       /\ ListedNames(last.listing) = DOMAIN written[last.ctx]
       /\ ListedOnce(last.listing)

AIResponsePrefix == <<"A", "I", " ", "R", "e", "s", "p", "o", "n", "s", "e", ":">>

\* C32: ExamplePlugin's ai-query with at least one argument returns the
\* response of the AI provider of the plugin's context, prefixed with
\* "AI Response:".
C32_AIQueryResponse ==
    ( /\ last.op = "execute_command"
      /\ plugins[last.plugin].kind = "ExamplePlugin"
      /\ last.command = "ai-query"
      /\ last.args # <<>> )
    => /\ last.outcome.kind = "value"
       /\ last.outcome.val.t = "str"
       /\ IsPrefix(AIResponsePrefix, last.outcome.val.s)

\* the context of plugin q as the contexts ctxs hold it, None for none
ContextOf(ctxs, q) == IF plugins[q].context = 0 THEN NoneValue ELSE ctxs[plugins[q].context]

\* C33: execute_plugin_command(name, command, args) calls execute_command
\* exactly once on the plugin registered under name and on no other plugin;
\* whether the call succeeds or fails, the registry, the files and every other
\* plugin's state and context are unchanged.
C33_DispatchTouchesAddressed ==
    [][ (last'.op = "execute_plugin_command" /\ ops' = ops + 1)
        => /\ GetPlugin(registry, last'.name) # 0
                 => last'.called = {GetPlugin(registry, last'.name)}
           /\ registry' = registry
           /\ fs' = fs
           /\ \A q \in 1..Len(plugins) :
                 q # GetPlugin(registry, last'.name)
                 => /\ plugins'[q] = plugins[q]
                    /\ ContextOf(contexts', q) = ContextOf(contexts, q) ]_vars

\* the same for the other plugins that do not share the addressed plugin's context
C33_DispatchTouchesOwnContext ==
    [][ (last'.op = "execute_plugin_command" /\ ops' = ops + 1)
        => /\ GetPlugin(registry, last'.name) # 0
                 => last'.called = {GetPlugin(registry, last'.name)}
           /\ GetPlugin(registry, last'.name) = 0 => last'.called = {}
           /\ registry' = registry
           /\ fs' = fs
           /\ \A q \in 1..Len(plugins) :
                 ( /\ q # GetPlugin(registry, last'.name)
                   /\ GetPlugin(registry, last'.name) # 0
                         => plugins[q].context # plugins[GetPlugin(registry, last'.name)].context )
                 => /\ plugins'[q] = plugins[q]
                    /\ ContextOf(contexts', q) = ContextOf(contexts, q) ]_vars

----------------------------------------------------------------------------
(* The execution counter of MockComplexPlugin *)

\* calls that return and calls that fail: invalid arguments, the "fail"
\* command, an unknown command
CounterCalls ==
    { <<"calculate", << <<"1", "0">>, <<"3">> >>>>, <<"config", <<ArgK, ArgV>>>>,
      <<"config", <<>>>>, <<"fail", <<>>>>, <<"bogus", <<>>>> }

NextCounter ==
    \/ NewMockPlugin("MockComplexPlugin", 0, FALSE, FALSE)
    \/ \E name \in {"mock"}, p \in 1..Len(plugins) : Register(name, p)
    \/ \E p \in 1..Len(plugins), call \in CounterCalls : ExecuteCommand(p, call[1], call[2])
    \/ \E call \in CounterCalls : ExecutePluginCommand("mock", call[1], call[2])
    \/ \E p \in 1..Len(plugins) : Cleanup(p)
    \/ \E p \in 1..Len(plugins) : GetInfo(p)

SpecCounter == InitFiles /\ [][NextCounter]_vars

\* the plugins on which the step called execute_command
Executed ==
    IF last'.op \in {"execute_command", "execute_plugin_command"} THEN last'.called ELSE {}

\* C34: MockComplexPlugin's execution counter is the number of
\* execute_command calls since construction or since the last cleanup():
\* it starts at 0, every call adds one whether it returns or fails (unknown
\* command, invalid arguments, the "fail" command), cleanup() resets it to 0
\* and clears the plugin-local config, and nothing else changes it.
C34_ExecutionCounter ==
    [][ /\ ops' = ops + 1
        /\ \A p \in 1..Len(plugins') :
              plugins'[p].kind = "MockComplexPlugin"
              => /\ p > Len(plugins) => plugins'[p].execution_count = 0
                 /\ (p <= Len(plugins) /\ p \in Executed)
                       => plugins'[p].execution_count = plugins[p].execution_count + 1
                 /\ (p <= Len(plugins) /\ last'.op = "cleanup" /\ last'.plugin = p)
                       => /\ plugins'[p].execution_count = 0
                          /\ plugins'[p].config = <<>>
                 /\ ( /\ p <= Len(plugins)
                      /\ p \notin Executed
                      /\ ~(last'.op = "cleanup" /\ last'.plugin = p) )
                       => plugins'[p].execution_count = plugins[p].execution_count ]_vars

\* a failing call was counted on a plugin that was cleaned up before
C34_Witness ==
    /\ last.op = "execute_command"
    /\ last.outcome.kind = "raise"
    /\ plugins[last.plugin].kind = "MockComplexPlugin"
    /\ lifecycle[last.plugin].cleanups = 1
    /\ plugins[last.plugin].execution_count = 1

\* C35: ExamplePlugin's calculate given exactly two arguments that parse as
\* numbers always returns a result mapping and never raises, for every pair
\* (a, b): b = 0, negative b, and a = 0 with negative b included.
C35_CalculateTotal ==
    CalculatedOnNumbers
    => /\ last.outcome.kind = "value"
       /\ last.outcome.exc = "OK"
       /\ last.outcome.val.t = "dict"

\* over the operands here calculate returns for every pair but a = 0 with
\* negative b, and that one raises
C35_CalculateTotalButZeroBase ==
    CalculatedOnNumbers
    => IF OperandA = 0 /\ OperandB < 0
       THEN last.outcome.exc = "ZeroDivisionError"
       ELSE last.outcome.kind = "value" /\ last.outcome.val.t = "dict"

\* C36: after an ExamplePlugin.initialize() that failed because
\* ensure_data_dir or write_data_file raised, the 'initialized' config value
\* of the context is not True, and a get_info() of a plugin whose initialize()
\* failed and never succeeded does not report initialized = True.
C36_FailedInitializeNotMarked ==
    /\ ( /\ last.op = "initialize"
         /\ plugins[last.plugin].kind = "ExamplePlugin"
         /\ last.outcome.kind = "raise" )
       => GetConfig(contexts[plugins[last.plugin].context], KeyInitialized, BoolValue(FALSE))
             # BoolValue(TRUE)
    /\ ( /\ last.op = "get_info"
         /\ plugins[last.plugin].kind = "ExamplePlugin"
         /\ last.outcome.kind = "value"
         /\ lifecycle[last.plugin].failed
         /\ ~lifecycle[last.plugin].ready )
       => last.info.initialized # BoolValue(TRUE)

----------------------------------------------------------------------------
(* The declared commands of every implementation *)

\* every name some implementation declares, and two it does not
CommandNames ==
    {"hello", "features", "calculate", "ai-query", "test", "echo",
     "config", "store", "retrieve", "fail", "bogus"}

\* argument lists of the lengths 0, 1 and 2, numbers and other texts
AnyArgs == {<<>>, <<ArgK>>, << <<"1", "0">>, <<"3">> >>}

NextDeclared ==
    \/ NewExamplePlugin
    \/ \E kind \in PluginKinds, failExecute \in BOOLEAN :
          NewMockPlugin(kind, 0, FALSE, failExecute)
    \/ \E p \in 1..Len(plugins), command \in CommandNames, args \in AnyArgs :
          ExecuteCommand(p, command, args)

SpecDeclared == InitFiles /\ [][NextDeclared]_vars

UnknownCommand(outcome) ==
    outcome.kind = "raise" /\ outcome.exc = "ValueError" /\ outcome.fmt = "Unknown command: {}"

\* C37: for every plugin implementation and every name c its get_commands()
\* returns, execute_command(c, args) never fails with the unknown-command
\* error, whatever the argument list: it returns, or fails with an argument
\* or execution error.
C37_DeclaredDispatchable ==
    ( /\ last.op = "execute_command"
      /\ IsDeclared(plugins[last.plugin].kind, last.command) )
    => ~UnknownCommand(last.outcome)

\* a declared command that failed on its arguments
C37_Witness ==
    /\ last.op = "execute_command"
    /\ IsDeclared(plugins[last.plugin].kind, last.command)
    /\ last.outcome.kind = "raise"
    /\ plugins[last.plugin].kind = "MockComplexPlugin"
    /\ last.command = "retrieve"

----------------------------------------------------------------------------
(* The plugin search paths of the manager *)

\* the text of an absolute path: "/" before every component
RECURSIVE PathText(_)
PathText(p) == IF p = <<>> THEN <<>> ELSE <<"/">> \o Head(p) \o PathText(Tail(p))

\* the path strings callers add: the home directory, a regular file, the data
\* directory of the context "a", a path that is never there, the home
\* directory written with trailing slashes
SearchPaths ==
    { PathText(Home), PathText(HostFile), PathText(JoinPath(PluginsRoot, <<"a">>)),
      <<"/", "n">>, <<"/", "h", "/", "/">> }

PathOp(op, path) == [op |-> op, path |-> path, outcome |-> CmdReturned(NoneValue)]

\* an add_plugin_path that does not look at the filesystem
AddPluginPathUnchecked(f, paths, path) == Append(paths, PathParts(path))

\* PluginManager.add_plugin_path: plugin_paths afterwards
AddPluginPathResult(f, paths, path) ==
    IF PathExists(f, PathParts(path)) /\ PathIsDir(f, PathParts(path))
    THEN Append(paths, PathParts(path))
    ELSE paths

AddPluginPath(path) ==
    /\ ops < MaxOps
    /\ ops' = ops + 1
    /\ plugin_paths' = AddPluginPathResult(fs, plugin_paths, path)
    /\ last' = PathOp("add_plugin_path", path)
    /\ UNCHANGED <<fs, contexts, written, plugins, registry, lifecycle, running, equiv>>

NextPaths ==
    \/ \E name \in {<<"a">>} : NewContext(name)
    \/ \E c \in 1..Len(contexts) : EnsureDataDir(c)
    \/ NewMockPlugin("MockSimplePlugin", 0, FALSE, FALSE)
    \/ \E p \in 1..Len(plugins) : Register("mock", p)
    \/ \E path \in SearchPaths : AddPluginPath(path)
    \/ LoadPlugins
    \/ ListPluginsCall

SpecPaths == InitFiles /\ [][NextPaths]_vars

----------------------------------------------------------------------------
(* The three PluginContext implementations, run side by side: each in a
   filesystem of its own, all in a process of one locale *)

Classes == {"core.PluginContext", "plugins.PluginContext", "MockPluginContext"}

\* the encoding of the locale: what write_text and read_text use when they
\* are given none
Locales == {"utf-8", "ascii"}

\* the character U+00E9, written by its code point
EAcute == "U+00E9"

\* the text can be written in, and read back from, the encoding
Encodable(text, encoding) ==
    encoding = "utf-8" \/ \A i \in 1..Len(text) : text[i] # EAcute

\* temp_data_dir of the fixtures
TempDataDir == << <<"t">> >>

EquivName == <<"t", "e", "s", "t", "_", "p", "l", "u", "g", "i", "n">>

\* PluginContext.__init__ of the package
PackageContextInit(name) ==
    [plugin_name |-> name,
     config      |-> <<>>,
     data_dir    |-> JoinPath(PluginsRoot, name)]

\* MockPluginContext.__init__
MockContextInit(name, dataDir) ==
    [plugin_name |-> name,
     config      |-> <<>>,
     data_dir    |-> JoinPath(dataDir, name)]

\* the encoding each implementation writes and reads with
EncodingOf(cls, locale) == IF cls = "MockPluginContext" THEN "utf-8" ELSE locale

\* write_data_file of each implementation: write_text opens the file, which
\* creates or empties it, before it encodes the content
WriteDataFileOf(cls, locale, f, ctx, filename, content) ==
    IF Encodable(content, EncodingOf(cls, locale))
    THEN WriteDataFileResult(f, ctx, filename, content)
    ELSE LET Opened(r) ==
                 [fs |-> r.fs,
                  outcome |-> IF r.outcome.kind = "raise" THEN r.outcome
                              ELSE Raised("UnicodeEncodeError")]
         IN Opened(WriteDataFileResult(f, ctx, filename, <<>>))

\* read_data_file of each implementation
ReadDataFileOf(cls, locale, f, ctx, filename) ==
    LET Decoded(r) ==
            IF r.kind = "value" /\ ~Encodable(r.val, EncodingOf(cls, locale))
            THEN Raised("UnicodeDecodeError") ELSE r
    IN Decoded(ReadDataFileResult(f, ctx, filename))

\* list_data_files of each implementation: the names, in whatever order
ListDataFilesOf(f, ctx) ==
    IF PathExists(f, ctx.data_dir)
    THEN IF PathIsDir(f, ctx.data_dir)
         THEN [kind |-> "value", val |-> DataFileNames(f, ctx), exc |-> "OK"]
         ELSE Raised("NotADirectoryError")
    ELSE [kind |-> "value", val |-> {}, exc |-> "OK"]

EquivFileNames == {<<"f">>, <<"g">>}

EquivContents == {<<"x">>, <<EAcute>>}

EquivValues == {StrValue(<<"v">>), NoneValue}

EquivOp(op, arg, content, outcomes) ==
    [op |-> op, arg |-> arg, content |-> content, outcomes |-> outcomes]

\* the filesystem each implementation starts in
StartFs(cls) ==
    IF cls = "MockPluginContext"
    THEN (<<>> :> DirNode) @@ (TempDataDir :> DirNode)
    ELSE (<<>> :> DirNode) @@ (Home :> DirNode)

StartContext(cls) ==
    CASE cls = "core.PluginContext"    -> PluginContextInit(EquivName)
      [] cls = "plugins.PluginContext" -> PackageContextInit(EquivName)
      [] cls = "MockPluginContext"     -> MockContextInit(EquivName, TempDataDir)

\* the three contexts are constructed with the same name, in a process of
\* the given locale
StartEquiv(locale) ==
    /\ ops < MaxOps
    /\ ops' = ops + 1
    /\ equiv = NotStarted
    /\ equiv' = [locale |-> locale,
                 impl |-> [cls \in Classes |-> [ctx |-> StartContext(cls), fs |-> StartFs(cls)]]]
    /\ last' = EquivOp("PluginContext", EquivName, <<>>, [cls \in Classes |-> ReturnedNone])
    /\ UNCHANGED <<fs, contexts, written, plugins, registry, plugin_paths, lifecycle, running>>

\* one call made on each implementation with the same arguments: after(cls)
\* is the implementation afterwards, outcome(cls) what the call returned
EquivStep(op, arg, content, after(_), outcome(_)) ==
    /\ ops < MaxOps
    /\ ops' = ops + 1
    /\ equiv # NotStarted
    /\ equiv' = [equiv EXCEPT !.impl = [cls \in Classes |-> after(cls)]]
    /\ last' = EquivOp(op, arg, content, [cls \in Classes |-> outcome(cls)])
    /\ UNCHANGED <<fs, contexts, written, plugins, registry, plugin_paths, lifecycle, running>>

EquivSetConfig(key, value) ==
    LET after(cls) == [equiv.impl[cls] EXCEPT !.ctx = SetConfig(@, key, value)]
        outcome(cls) == ReturnedNone
    IN EquivStep("set_config", key, <<>>, after, outcome)

EquivGetConfig(key) ==
    LET after(cls) == equiv.impl[cls]
        outcome(cls) == Returned(GetConfig(equiv.impl[cls].ctx, key, NoneValue))
    IN EquivStep("get_config", key, <<>>, after, outcome)

EquivEnsureDataDir ==
    LET after(cls) ==
            [equiv.impl[cls] EXCEPT !.fs = EnsureDataDirResult(equiv.impl[cls].fs, equiv.impl[cls].ctx).fs]
        outcome(cls) == EnsureDataDirResult(equiv.impl[cls].fs, equiv.impl[cls].ctx).outcome
    IN EquivStep("ensure_data_dir", <<>>, <<>>, after, outcome)

EquivWriteDataFile(filename, content) ==
    LET result(cls) == WriteDataFileOf(cls, equiv.locale, equiv.impl[cls].fs,
                                       equiv.impl[cls].ctx, filename, content)
        after(cls) == [equiv.impl[cls] EXCEPT !.fs = result(cls).fs]
        outcome(cls) == result(cls).outcome
    IN EquivStep("write_data_file", filename, content, after, outcome)

EquivReadDataFile(filename) ==
    LET after(cls) == equiv.impl[cls]
        outcome(cls) == ReadDataFileOf(cls, equiv.locale, equiv.impl[cls].fs,
                                       equiv.impl[cls].ctx, filename)
    IN EquivStep("read_data_file", filename, <<>>, after, outcome)

EquivListDataFiles ==
    LET after(cls) == equiv.impl[cls]
        outcome(cls) == ListDataFilesOf(equiv.impl[cls].fs, equiv.impl[cls].ctx)
    IN EquivStep("list_data_files", <<>>, <<>>, after, outcome)

NextEquiv ==
    \/ \E locale \in Locales : StartEquiv(locale)
    \/ \E key \in ConfigKeys, value \in EquivValues : EquivSetConfig(key, value)
    \/ \E key \in ConfigKeys : EquivGetConfig(key)
    \/ EquivEnsureDataDir
    \/ \E filename \in EquivFileNames, content \in EquivContents :
          EquivWriteDataFile(filename, content)
    \/ \E filename \in EquivFileNames : EquivReadDataFile(filename)
    \/ EquivListDataFiles

SpecEquiv == InitFiles /\ [][NextEquiv]_vars

\* the files of an implementation relative to its own data directory
FilesUnder(i) ==
    [name \in DataFileNames(i.fs, i.ctx) |-> i.fs[Append(Walk(i.fs, i.ctx.data_dir).path, name)].data]

\* two implementations are in the same state, each relative to its own directory
SameState(i, j) ==
    /\ i.ctx.config = j.ctx.config
    /\ i.ctx.plugin_name = j.ctx.plugin_name
    /\ PathIsDir(i.fs, i.ctx.data_dir) = PathIsDir(j.fs, j.ctx.data_dir)
    /\ FilesUnder(i) = FilesUnder(j)

\* C39: core.PluginContext, the package's PluginContext and MockPluginContext
\* are observationally equivalent on get_config, set_config, ensure_data_dir,
\* write_data_file, read_data_file and list_data_files: after every sequence
\* of calls with the same arguments, the last call returned the same result
\* or error on each, and each is in the same config and file state relative
\* to its own data directory.
C39_ImplementationsEquivalent ==
    equiv # NotStarted
    => \A c, d \in Classes :
          /\ last.outcomes[c] = last.outcomes[d]
          /\ SameState(equiv.impl[c], equiv.impl[d])

\* the same in a process whose locale encoding is UTF-8
C39_EquivalentUnderUtf8 ==
    (equiv # NotStarted /\ equiv.locale = "utf-8")
    => \A c, d \in Classes :
          /\ last.outcomes[c] = last.outcomes[d]
          /\ SameState(equiv.impl[c], equiv.impl[d])

====
